---- MODULE Spec2Model ----
(***************************************************************************)
(* Generic reference elements of dune-geometry: topology encoding,        *)
(* subentity enumeration, numbering conversion (conversion.hh) and the    *)
(* construction of GenericReferenceElement (referenceelements.hh).        *)
(*                                                                         *)
(* Vectors of the program (std::vector, C arrays, FieldVector) are         *)
(* functions over 0..n-1, as in the code.  The coordinate type ctype is    *)
(* modelled by exact rationals <<numerator, denominator>> in lowest terms. *)
(***************************************************************************)
EXTENDS Integers, Sequences, FiniteSets, TLC

\* ------------------------------------------------------------------ bounds
\* largest dimension dim of a reference element that is built
MaxDim == 3
\* local test points have coordinates k/GridN, k in 0..GridN
GridN == 2
\* the int found behind the end of a std::vector<int> is one of 0..MaxJunk
MaxJunk == 1
\* largest dimension dim of a registry GenericReferenceElements< ctype, dim >
MaxRegistryDim == 2
\* number of threads that access a registry concurrently
NumThreads == 2

\* ------------------------------------------------------------ 0-based vectors
Vec(n, F(_)) == [k \in 0..(n-1) |-> F(k)]
EmptyVec == [k \in {} |-> 0]
VSize(v) == Cardinality(DOMAIN v)

\* --------------------------------------------------------------- rationals
RECURSIVE Gcd(_, _)
Gcd(a, b) == IF b = 0 THEN a ELSE Gcd(b, a % b)
Abs(a) == IF a < 0 THEN -a ELSE a
Rat(n, d) ==
  LET s == IF d < 0 THEN -1 ELSE 1
      g == Gcd(Abs(n), Abs(d))
  IN  <<(s * n) \div g, (s * d) \div g>>
RInt(n) == <<n, 1>>
RAdd(a, b) == Rat(a[1] * b[2] + b[1] * a[2], a[2] * b[2])
RSub(a, b) == Rat(a[1] * b[2] - b[1] * a[2], a[2] * b[2])
RMul(a, b) == Rat(a[1] * b[1], a[2] * b[2])
RLe(a, b) == a[1] * b[2] <= b[1] * a[2]
\* FieldVector arithmetic
VZero(n) == Vec(n, LAMBDA k : RInt(0))
VAdd(x, y) == [k \in DOMAIN x |-> RAdd(x[k], y[k])]
VSub(x, y) == [k \in DOMAIN x |-> RSub(x[k], y[k])]
VScale(x, a) == [k \in DOMAIN x |-> RMul(x[k], a)]
RECURSIVE VSumTo(_, _, _)
\* acc + vs[0] + ... + vs[n-1], in loop order
VSumTo(acc, n, vs) == IF n = 0 THEN acc ELSE VAdd(VSumTo(acc, n - 1, vs), vs[n - 1])
RECURSIVE Dot(_, _, _)
Dot(x, y, n) == IF n = 0 THEN RInt(0) ELSE RAdd(Dot(x, y, n - 1), RMul(x[n-1], y[n-1]))

\* ---------------------------------------------------------------- topology
RECURSIVE Pow2(_)
Pow2(n) == IF n = 0 THEN 1 ELSE 2 * Pow2(n - 1)
\* Topology< id, d >: bit d-1 of id tells whether the outermost constructor
\* is Prism (set) or Pyramid (clear)
IsPrism(id, d) == d > 0 /\ (id \div Pow2(d - 1)) % 2 = 1
BaseId(id, d) == id % Pow2(d - 1)

\* Size< Topology, codim >::value
RECURSIVE Size(_, _, _)
Size(id, d, c) ==
  IF c = 0 THEN 1
  ELSE IF c > d THEN 0
  ELSE LET b == BaseId(id, d)
           m == Size(b, d - 1, c - 1)
       IN  IF c = d
           THEN IF IsPrism(id, d) THEN 2 * m ELSE m + 1
           ELSE LET n == Size(b, d - 1, c)
                IN  IF IsPrism(id, d) THEN n + 2 * m ELSE n + m

\* SubTopology< Topology, codim, i >::type::id (its dimension is d - c)
RECURSIVE SubTopologyId(_, _, _, _)
SubTopologyId(id, d, c, i) ==
  IF c = 0 THEN id
  ELSE IF c = d THEN 0
  ELSE LET b == BaseId(id, d)
           n == Size(b, d - 1, c)
           m == Size(b, d - 1, c - 1)
       IN  IF IsPrism(id, d)
           THEN IF i < n
                THEN SubTopologyId(b, d - 1, c, i) + Pow2(d - 1 - c)
                ELSE LET s == IF i < n + m THEN 0 ELSE 1
                     IN  SubTopologyId(b, d - 1, c - 1, i - (n + s * m))
           ELSE IF i < m
                THEN SubTopologyId(b, d - 1, c - 1, i)
                ELSE SubTopologyId(b, d - 1, c, i - m)

\* SubTopologySize< Topology, codim, subcodim >::size( i )
SubTopologySize(id, d, c, sc, i) == Size(SubTopologyId(id, d, c, i), d - c, sc)

\* GenericSubTopologyNumbering< Topology, codim, subcodim >::number( i, j )
RECURSIVE SubTopologyNumber(_, _, _, _, _, _)
SubTopologyNumber(id, d, c, sc, i, j) ==
  IF c = 0 THEN j
  ELSE IF sc = 0 THEN i
  ELSE LET b  == BaseId(id, d)
           n  == Size(b, d - 1, c)
           m  == Size(b, d - 1, c - 1)
           nb == Size(b, d - 1, c + sc)
           mb == Size(b, d - 1, c + sc - 1)
       IN  IF IsPrism(id, d)
           THEN IF i < n
                THEN LET ns == SubTopologySize(b, d - 1, c, sc, i)
                         ms == SubTopologySize(b, d - 1, c, sc - 1, i)
                         s  == IF j < ns + ms THEN 0 ELSE 1
                     IN  IF j < ns
                         THEN SubTopologyNumber(b, d - 1, c, sc, i, j)
                         ELSE SubTopologyNumber(b, d - 1, c, sc - 1, i, j - (ns + s * ms))
                              + nb + s * mb
                ELSE LET s == IF i < n + m THEN 0 ELSE 1
                     IN  SubTopologyNumber(b, d - 1, c - 1, sc, i - (n + s * m), j)
                         + nb + s * mb
           ELSE IF i < m
                THEN SubTopologyNumber(b, d - 1, c - 1, sc, i, j)
                ELSE LET ms == SubTopologySize(b, d - 1, c, sc - 1, i - m)
                     IN  IF j < ms
                         THEN SubTopologyNumber(b, d - 1, c, sc - 1, i - m, j)
                         ELSE IF c + sc = d
                              THEN mb
                              ELSE SubTopologyNumber(b, d - 1, c, sc, i - m, j - ms) + mb

\* ------------------------------------------------------------ GeometryType
\* GeometryType( topologyId, dim ); bit 0 of the id carries no information
GeometryType(id, d) == [id |-> id, dim |-> d]
isSimplex(t) == (t.id % Pow2(t.dim)) \div 2 = 0
isCube(t) == (t.id % Pow2(t.dim)) \div 2 = (Pow2(t.dim) - 1) \div 2
isTriangle(t) == t.dim = 2 /\ isSimplex(t)
isQuadrilateral(t) == t.dim = 2 /\ isCube(t)

\* --------------------------------------------------------- ReferenceDomain
\* ReferenceDomain< Topology >::numCorners
NumCorners(id, d) == Size(id, d, d)

\* ReferenceDomain< Topology >::corner( i, x ), x of dimension n >= d
RECURSIVE Corner(_, _, _, _)
Corner(id, d, i, n) ==
  IF d = 0 THEN VZero(n)
  ELSE LET b  == BaseId(id, d)
           nb == NumCorners(b, d - 1)
       IN  IF IsPrism(id, d)
           THEN IF i < nb
                THEN Corner(b, d - 1, i, n)
                ELSE [Corner(b, d - 1, i - nb, n) EXCEPT ![d - 1] = RInt(1)]
           ELSE IF i < nb
                THEN Corner(b, d - 1, i, n)
                ELSE [VZero(n) EXCEPT ![d - 1] = RInt(1)]

\* ReferenceDomain< Topology >::volume< ctype >()
RECURSIVE ReferenceDomainVolume(_, _)
ReferenceDomainVolume(id, d) ==
  IF d = 0 THEN RInt(1)
  ELSE LET vb == ReferenceDomainVolume(BaseId(id, d), d - 1)
       IN  IF IsPrism(id, d) THEN vb ELSE RMul(vb, Rat(1, d))

\* ReferenceDomain< Topology >::numNormals
NumNormals(id, d) == IF d = 0 THEN 0 ELSE Size(id, d, 1)

\* ReferenceDomain< Topology >::integrationOuterNormal( i, n ), n of dimension nn
RECURSIVE IntegrationOuterNormal(_, _, _, _)
IntegrationOuterNormal(id, d, i, nn) ==
  LET b == BaseId(id, d)
  IN  IF IsPrism(id, d)
      THEN IF i >= NumNormals(b, d - 1)
           THEN [VZero(nn) EXCEPT ![d - 1] =
                   IF i - NumNormals(b, d - 1) = 0 THEN RInt(-1) ELSE RInt(1)]
           ELSE IntegrationOuterNormal(b, d - 1, i, nn)
      ELSE IF d = 1
           THEN [VZero(nn) EXCEPT ![0] = IF i > 0 THEN RInt(1) ELSE RInt(-1)]
           ELSE IF i > 0
                THEN LET j  == SubTopologyNumber(b, d - 1, 1, d - 2, i - 1, 0)
                         x  == Corner(b, d - 1, j, nn)
                         nv == IntegrationOuterNormal(b, d - 1, i - 1, nn)
                     IN  [nv EXCEPT ![d - 1] = Dot(x, nv, d - 1)]
                ELSE [VZero(nn) EXCEPT ![d - 1] = RInt(-1)]

\* ReferenceDomain< Topology >::checkInside( x, factor )
RECURSIVE ReferenceDomainCheckInside(_, _, _, _)
ReferenceDomainCheckInside(id, d, x, factor) ==
  IF d = 0 THEN TRUE
  ELSE LET xn == x[d - 1]
           b  == BaseId(id, d)
       IN  /\ RLe(RInt(0), xn)
           /\ RLe(xn, factor)
           /\ ReferenceDomainCheckInside(b, d - 1, x,
                 IF IsPrism(id, d) THEN factor ELSE RSub(factor, xn))

\* -------------------------------------------------- embeddings (mappings)
\* A mapping object: the topology it is defined on and its corner storage.
Mapping(id, d, coords) == [topologyId |-> id, dim |-> d, coords |-> coords]

\* CornerMapping< ..., affine = true >::global( x ): every reference mapping
\* is evaluated as an affine map of its corners
RECURSIVE AffineGlobal(_, _, _, _)
AffineGlobal(m, x, k, acc) ==
  IF k = m.dim THEN acc
  ELSE AffineGlobal(m, x, k + 1,
         VAdd(acc, VScale(VSub(m.coords[NumCorners(m.topologyId % Pow2(k), k)],
                               m.coords[0]), x[k])))
MappingGlobal(m, x) == AffineGlobal(m, x, 0, m.coords[0])
\* HybridMapping::checkInside( x ): the reference domain of the mapping's topology
MappingCheckInside(m, x) == ReferenceDomainCheckInside(m.topologyId, m.dim, x, RInt(1))

\* mapping.trace< codim >( i, storage ): the embedding of subentity (i, codim),
\* whose corners are the corners of `m` at the subentity's vertices
Trace(m, codim, i) ==
  LET sid == SubTopologyId(m.topologyId, m.dim, codim, i)
      sd  == m.dim - codim
  IN  Mapping(sid, sd,
        Vec(NumCorners(sid, sd),
            LAMBDA k : m.coords[SubTopologyNumber(m.topologyId, m.dim, codim, sd, i, k)]))

\* ------------------------------------------------------------ MapNumbering
\* a C array literal, read at the 0-based index i
At(table, i) == table[i + 1]

MapNumberingIdentical_dune2generic(codim, i) == i
MapNumberingIdentical_generic2dune(codim, i) == i

MapNumberingTriangle_dune2generic(codim, i) == IF codim = 1 THEN 2 - i ELSE i
MapNumberingTriangle_generic2dune(codim, i) == MapNumberingTriangle_dune2generic(codim, i)

MapNumberingTetrahedron_dune2generic(codim, i) ==
  LET edge == <<0, 2, 1, 3, 4, 5>>
  IN  IF codim = 1 THEN 3 - i ELSE IF codim = 2 THEN At(edge, i) ELSE i
MapNumberingTetrahedron_generic2dune(codim, i) == MapNumberingTetrahedron_dune2generic(codim, i)

MapNumberingCube_dune2generic(codim, i) ==
  LET edge == <<0, 1, 2, 3, 4, 5, 8, 9, 6, 7, 10, 11>>
  IN  IF codim = 2 THEN At(edge, i) ELSE i
MapNumberingCube_generic2dune(codim, i) == MapNumberingCube_dune2generic(codim, i)

MapNumbering4DCube_dune2generic(codim, i) ==
  LET codim2 == <<0, 1, 2, 3, 4, 5, 8, 9, 12, 13, 18, 19,
                  6, 7, 10, 11, 14, 15, 20, 21, 16, 17, 22, 23>>
      codim3 == <<0, 1, 2, 3, 4, 5, 6, 7, 8, 9, 10, 11, 20, 21, 22, 23,
                  12, 13, 16, 17, 24, 25, 28, 29, 14, 15, 18, 19, 26, 27, 30, 31>>
  IN  IF codim = 2 THEN At(codim2, i)
      ELSE IF codim = 3 THEN At(codim3, i)
      ELSE i
MapNumbering4DCube_generic2dune(codim, i) ==
  LET codim2 == <<0, 1, 2, 3, 4, 5, 12, 13, 6, 7, 14, 15,
                  8, 9, 16, 17, 20, 21, 10, 11, 18, 19, 22, 23>>
      codim3 == <<0, 1, 2, 3, 4, 5, 6, 7, 8, 9, 10, 11, 16, 17, 24, 25,
                  18, 19, 26, 27, 12, 13, 14, 15, 20, 21, 28, 29, 22, 23, 30, 31>>
  IN  IF codim = 2 THEN At(codim2, i)
      ELSE IF codim = 3 THEN At(codim3, i)
      ELSE i

MapNumberingPyramid_dune2generic(codim, i) ==
  LET vertex == <<0, 1, 3, 2, 4>>
      edge   == <<2, 1, 3, 0, 4, 5, 7, 6>>
      face   == <<0, 3, 2, 4, 1>>
  IN  IF codim = 3 THEN At(vertex, i)
      ELSE IF codim = 2 THEN At(edge, i)
      ELSE IF codim = 1 THEN At(face, i)
      ELSE i
MapNumberingPyramid_generic2dune(codim, i) ==
  LET vertex == <<0, 1, 3, 2, 4>>
      edge   == <<3, 1, 0, 2, 4, 5, 7, 6>>
      face   == <<0, 4, 2, 1, 3>>
  IN  IF codim = 3 THEN At(vertex, i)
      ELSE IF codim = 2 THEN At(edge, i)
      ELSE IF codim = 1 THEN At(face, i)
      ELSE i

MapNumberingPrism_dune2generic(codim, i) ==
  LET edge == <<3, 5, 4, 0, 1, 2, 6, 8, 7>>
      face == <<3, 0, 2, 1, 4>>
  IN  IF codim = 2 THEN At(edge, i)
      ELSE IF codim = 1 THEN At(face, i)
      ELSE i
\* mutant: the inverse tables were copied from dune2generic
MapNumberingPrism_generic2dune_copied(codim, i) == MapNumberingPrism_dune2generic(codim, i)
MapNumberingPrism_generic2dune(codim, i) ==
  LET edge == <<3, 4, 5, 0, 2, 1, 6, 8, 7>>
      face == <<1, 3, 2, 0, 4>>
  IN  IF codim = 2 THEN At(edge, i)
      ELSE IF codim = 1 THEN At(face, i)
      ELSE i

\* the specializations MapNumbering< Topology >: which table a topology uses
MapNumberingKind(id, d) ==
  IF d <= 1 THEN "Identical"
  ELSE IF d = 2 THEN (IF id \in {0, 1} THEN "Triangle" ELSE "Identical")
  ELSE IF d = 3 THEN (IF id \in {0, 1} THEN "Tetrahedron"
                      ELSE IF id \in {2, 3} THEN "Pyramid"
                      ELSE IF id \in {4, 5} THEN "Prism"
                      ELSE "Cube")
  ELSE IF d = 4 /\ id \in {14, 15} THEN "4DCube"
  ELSE "none"
\* the largest dimension MapNumbering is specialized for (the 4D cube)
MaxTabulatedDim == 4

\* MapNumbering< Topology >::dune2generic< codim >( i )
MapNumbering_dune2generic(id, d, codim, i) ==
  CASE MapNumberingKind(id, d) = "Identical"   -> MapNumberingIdentical_dune2generic(codim, i)
    [] MapNumberingKind(id, d) = "Triangle"    -> MapNumberingTriangle_dune2generic(codim, i)
    [] MapNumberingKind(id, d) = "Tetrahedron" -> MapNumberingTetrahedron_dune2generic(codim, i)
    [] MapNumberingKind(id, d) = "Pyramid"     -> MapNumberingPyramid_dune2generic(codim, i)
    [] MapNumberingKind(id, d) = "Prism"       -> MapNumberingPrism_dune2generic(codim, i)
    [] MapNumberingKind(id, d) = "Cube"        -> MapNumberingCube_dune2generic(codim, i)
    [] MapNumberingKind(id, d) = "4DCube"      -> MapNumbering4DCube_dune2generic(codim, i)
\* MapNumbering< Topology >::generic2dune< codim >( i )
MapNumbering_generic2dune(id, d, codim, i) ==
  CASE MapNumberingKind(id, d) = "Identical"   -> MapNumberingIdentical_generic2dune(codim, i)
    [] MapNumberingKind(id, d) = "Triangle"    -> MapNumberingTriangle_generic2dune(codim, i)
    [] MapNumberingKind(id, d) = "Tetrahedron" -> MapNumberingTetrahedron_generic2dune(codim, i)
    [] MapNumberingKind(id, d) = "Pyramid"     -> MapNumberingPyramid_generic2dune(codim, i)
    [] MapNumberingKind(id, d) = "Prism"       -> MapNumberingPrism_generic2dune(codim, i)
    [] MapNumberingKind(id, d) = "Cube"        -> MapNumberingCube_generic2dune(codim, i)
    [] MapNumberingKind(id, d) = "4DCube"      -> MapNumbering4DCube_generic2dune(codim, i)

\* MapNumberingProvider< dim >::Builder< topologyId >::Codim< codim >::apply:
\* the two maps of one (topology, codim), each resized to Size and filled
BuilderCodim(id, d, codim) ==
  LET size == Size(id, d, codim)
  IN  [d2g |-> Vec(size, LAMBDA j : MapNumbering_dune2generic(id, d, codim, j)),
       g2d |-> Vec(size, LAMBDA j : MapNumbering_generic2dune(id, d, codim, j))]

\* ==================================================================== state
VARIABLES
  dim,             \* template parameter dim of the reference element
  topologyId,      \* Topology::id of the topology it is initialized for
  pc,              \* position inside initializeTopology< Topology >()
  codimVar,        \* loop variable codim of the running loop
  info_,           \* GenericReferenceElement< void, dim >::info_
  baryCenters_,    \* GenericReferenceElement::baryCenters_
  volume_,         \* GenericReferenceElement::volume_
  volumeNormals_,  \* GenericReferenceElement::volumeNormals_
  mappings_,       \* GenericReferenceElement::mappings_
  numCorners,      \* the function-local static numCorners of initializeTopology
  junk,            \* what a read behind the end of a vector finds
  ret,             \* the last call of a public method and what it returned
  dimension,       \* template parameter dim of MapNumberingProvider
  dune2generic_,   \* MapNumberingProvider::dune2generic_
  generic2dune_,   \* MapNumberingProvider::generic2dune_
  ndebug,          \* the build defines NDEBUG: assert( . ) expands to nothing
  threadSafeStatics, \* the build serialises the initialisation of local statics
  guard,           \* initialisation state of the function-local static containers
  values_,         \* GenericReferenceElementContainer::values_ of each container
  constructions,   \* how often initializeTopology ran, per container and topologyId
  thread,          \* per calling thread: its position inside a registry access
  heap,            \* the free store: one cell per new-expression evaluated so far
  storage_,        \* the addresses the pointers in mappings_ hold
  idx,             \* loop variable i of Destroy< codim >::apply
  traceProvider    \* TraceProvider< Topology, GeometryTraits, codim, forceHybrid >:
                   \* its static instance and the call of construct in progress

refVars == <<dim, topologyId, pc, codimVar, info_, baryCenters_, volume_,
             volumeNormals_, mappings_, numCorners, junk>>
numVars == <<dimension, dune2generic_, generic2dune_>>
regVars == <<guard, values_, constructions, thread>>
extVars == <<ndebug, threadSafeStatics, regVars>>
heapVars == <<heap, storage_, idx>>
vars == <<refVars, heapVars, traceProvider, numVars, extVars, ret>>

\* a default-constructed GenericReferenceElement< ctype, d >
NewElement(d, id, g) ==
  /\ dim = d
  /\ topologyId = id
  /\ pc = "new"
  /\ codimVar = 0
  /\ info_ = [c \in 0..d |-> EmptyVec]
  /\ baryCenters_ = [c \in 0..d |-> EmptyVec]
  /\ volume_ = RInt(0)
  /\ volumeNormals_ = EmptyVec
  /\ mappings_ = [c \in 0..d |-> EmptyVec]
  /\ numCorners = [set |-> FALSE, value |-> 0]
  /\ junk = g
  /\ heap = <<>>
  /\ storage_ = [c \in 0..d |-> EmptyVec]
  /\ idx = 0
\* the two function-local static containers of a (ctype, dim): `container` in
\* GenericReferenceElements::container() and `inst` in
\* GenericReferenceElementContainer::instance()
Statics == {"container", "inst"}
\* a default-constructed GenericReferenceElement inside values_
RawElement == [initialized |-> FALSE]
\* the process before any registry access, with n threads and build flags nd, ts
NewRegistry(n, nd, ts) ==
  /\ ndebug = nd
  /\ threadSafeStatics = ts
  /\ guard = [s \in Statics |-> "uninitialized"]
  /\ values_ = [s \in Statics |-> EmptyVec]
  /\ constructions = [s \in Statics |-> [id \in 0..(Pow2(dim) - 1) |-> 0]]
  /\ thread = [t \in 1..n |-> [pc |-> "idle"]]
\* MapNumberingProvider< d > before instance() was first called
NewProvider(d) ==
  /\ dimension = d
  /\ dune2generic_ = EmptyVec
  /\ generic2dune_ = EmptyVec

\* ------------------------------------- GenericReferenceElement< void, dim >
\* size( c )
size(c) == VSize(info_[c])
\* SubEntityInfo::size( cc ) through size( i, c, cc )
sizeSub(i, c, cc) == VSize(info_[c][i].numbering_[cc])
\* SubEntityInfo::number( ii, cc ) through subEntity( i, c, ii, cc )
subEntity(i, c, ii, cc) == info_[c][i].numbering_[cc][ii]
\* type( i, c )
type(i, c) == info_[c][i].type_

\* mutant: the stored numbers are 1-based
SubCodim_oneBased(id, d, codim, subcodim, i) ==
  Vec(SubTopologySize(id, d, codim, subcodim, i),
      LAMBDA j : SubTopologyNumber(id, d, codim, subcodim, i, j) + 1)
\* SubEntityInfo::Initialize< Topology, codim >::SubCodim< subcodim >::apply
SubCodim(id, d, codim, subcodim, i) ==
  Vec(SubTopologySize(id, d, codim, subcodim, i),
      LAMBDA j : SubTopologyNumber(id, d, codim, subcodim, i, j))

\* mutant: type_ is taken from subentity 0 of the codimension
SubEntityInfo_initialize_typeOfFirst(id, d, codim, i) ==
  [codim_     |-> codim,
   numbering_ |-> [cc \in 0..d |-> IF cc >= codim
                                    THEN SubCodim(id, d, codim, cc - codim, i)
                                    ELSE EmptyVec],
   type_      |-> GeometryType(SubTopologyId(id, d, codim, 0), d - codim)]
\* SubEntityInfo::initialize< Topology, codim, i >()
SubEntityInfo_initialize(id, d, codim, i) ==
  [codim_     |-> codim,
   numbering_ |-> [cc \in 0..d |-> IF cc >= codim
                                    THEN SubCodim(id, d, codim, cc - codim, i)
                                    ELSE EmptyVec],
   type_      |-> GeometryType(SubTopologyId(id, d, codim, i), d - codim)]

\* mutant: the vector of codimension codim is resized to the size of
\* codimension codim+1, where there is one, every entry a copy of the first
InitializeCodim_nextSize(id, d, codim) ==
  Vec(Size(id, d, IF codim < d THEN codim + 1 ELSE codim),
      LAMBDA i : SubEntityInfo_initialize(id, d, codim, 0))
\* Initialize< Topology >::Codim< codim >::apply
InitializeCodim(id, d, codim) ==
  Vec(Size(id, d, codim), LAMBDA i : SubEntityInfo_initialize(id, d, codim, i))

\* GenericReferenceElement< void, dim >::initializeTopology< Topology >()
Base_initializeTopology ==
  /\ pc = "new"
  /\ info_' = [c \in 0..dim |-> InitializeCodim(topologyId, dim, c)]
  /\ pc' = "corners"
  /\ UNCHANGED <<dim, topologyId, codimVar, baryCenters_, volume_, volumeNormals_,
                 mappings_, numCorners, junk, heapVars, traceProvider, numVars, extVars, ret>>

\* --------------------------------- GenericReferenceElement< ctype, dim >
\* mutant: the loop stops one vertex early, the last entry keeps its zero value
CornerLoop_stopsEarly(id, d, numVertices) ==
  Vec(numVertices, LAMBDA i : IF i < numVertices - 1 THEN Corner(id, d, i, d) ELSE VZero(d))
\* the loop filling baryCenters_[ dim ] with ReferenceDomain::corner( i, . )
CornerLoop(id, d, numVertices) == Vec(numVertices, LAMBDA i : Corner(id, d, i, d))

\* initializeTopology: "compute corners"
ComputeCorners ==
  /\ pc = "corners"
  /\ LET numVertices == size(dim)
     IN  baryCenters_' = [baryCenters_ EXCEPT ![dim] = CornerLoop(topologyId, dim, numVertices)]
  /\ codimVar' = 0
  /\ pc' = IF 0 < dim THEN "barycenters" ELSE "volume"
  /\ UNCHANGED <<dim, topologyId, info_, volume_, volumeNormals_, mappings_,
                 numCorners, junk, heapVars, traceProvider, numVars, extVars, ret>>

\* numbering_[ dim ][ j ] as SubEntityInfo::number reads it: no bounds check,
\* so an index behind the end yields whatever lies there
ReadNumber(v, j) == IF j < VSize(v) THEN v[j] ELSE junk
\* baryCenters_[ dim ][ k ], likewise unchecked
ReadCorner(k) ==
  IF k < VSize(baryCenters_[dim]) THEN baryCenters_[dim][k]
  ELSE Vec(dim, LAMBDA x : RInt(junk))

\* the sum over j < nc of the corners read for subentity (i, codim)
CornerSum(codim, i, nc) ==
  VSumTo(VZero(dim), nc,
         Vec(nc, LAMBDA j : ReadCorner(ReadNumber(info_[codim][i].numbering_[dim], j))))
\* mutant: the sum is not divided by the number of corners
BaryCenter_unscaled(codim, i, nc) == CornerSum(codim, i, nc)
\* the body of the loop over i: the sum over j < nc, scaled by 1 / nc
BaryCenter(codim, i, nc) ==
  VScale(CornerSum(codim, i, nc), Rat(1, nc))

\* the value numCorners has in the loop body for subentity (i, codim):
\* a static local is initialized the first time control passes its declaration
StaticNumCorners(i, codim) ==
  IF numCorners.set THEN numCorners.value ELSE sizeSub(i, codim, dim)

\* initializeTopology: "compute barycenters", one pass of the loop over codim
ComputeBaryCenters ==
  /\ pc = "barycenters"
  /\ LET nc == StaticNumCorners(0, codimVar)
     IN  /\ baryCenters_' = [baryCenters_ EXCEPT ![codimVar] =
                               Vec(size(codimVar), LAMBDA i : BaryCenter(codimVar, i, nc))]
         /\ numCorners' = [set |-> TRUE, value |-> nc]
  /\ codimVar' = codimVar + 1
  /\ pc' = IF codimVar + 1 < dim THEN "barycenters" ELSE "volume"
  /\ UNCHANGED <<dim, topologyId, info_, volume_, volumeNormals_, mappings_,
                 junk, heapVars, traceProvider, numVars, extVars, ret>>

\* mutant: the volume of the base is taken, leaving out the division
InitVolume_ofBase(id, d) ==
  IF d = 0 THEN RInt(1) ELSE ReferenceDomainVolume(BaseId(id, d), d - 1)
\* initializeTopology: "compute reference element volume"
InitVolume(id, d) == ReferenceDomainVolume(id, d)
ComputeVolume ==
  /\ pc = "volume"
  /\ volume_' = InitVolume(topologyId, dim)
  /\ pc' = "normals"
  /\ UNCHANGED <<dim, topologyId, codimVar, info_, baryCenters_, volumeNormals_,
                 mappings_, numCorners, junk, heapVars, traceProvider, numVars, extVars, ret>>

\* This variant of "compute normals" stores one normal fewer than the reference
\* domain has.
ComputeNormals_oneFewer ==
  /\ pc = "normals"
  /\ volumeNormals_' = Vec(IF NumNormals(topologyId, dim) = 0 THEN 0
                           ELSE NumNormals(topologyId, dim) - 1,
                           LAMBDA i : IntegrationOuterNormal(topologyId, dim, i, dim))
  /\ pc' = "mapping0"
  /\ UNCHANGED <<dim, topologyId, codimVar, info_, baryCenters_, volume_,
                 mappings_, numCorners, junk, heapVars, traceProvider, numVars, extVars, ret>>

\* initializeTopology: "compute normals"
ComputeNormals ==
  /\ pc = "normals"
  /\ volumeNormals_' = Vec(NumNormals(topologyId, dim),
                           LAMBDA i : IntegrationOuterNormal(topologyId, dim, i, dim))
  /\ pc' = "mapping0"
  /\ UNCHANGED <<dim, topologyId, codimVar, info_, baryCenters_, volume_,
                 mappings_, numCorners, junk, heapVars, traceProvider, numVars, extVars, ret>>

\* mutant: the loop over the corners starts at 1
CornerStorage_shifted(id, d) == Vec(NumCorners(id, d), LAMBDA i : Corner(id, d, i + 1, d))
\* CornerStorage( integral_constant< int, 0 > ): the corners of the reference domain
CornerStorage(id, d) == Vec(NumCorners(id, d), LAMBDA i : Corner(id, d, i, d))

\* what a new-expression adds to the free store: the memory it allocates,
\* holding the object of the mapping of subentity (i, codim) constructed in it
NewCell(kind, codim, i) ==
  [kind |-> kind, codim |-> codim, i |-> i, destroyed |-> 0, released |-> 0,
   releasedBy |-> "none"]
\* the address the next new-expression returns
FreshAddress == Len(heap) + 1

\* initializeTopology: "set up mappings", the codimension-0 mapping
CreateCodim0 ==
  /\ pc = "mapping0"
  /\ mappings_' = [mappings_ EXCEPT ![0] =
                     Vec(1, LAMBDA i : Mapping(topologyId, dim, CornerStorage(topologyId, dim)))]
  /\ heap' = Append(heap, NewCell("VirtualMapping", 0, 0))
  /\ storage_' = [storage_ EXCEPT ![0] = Vec(1, LAMBDA i : FreshAddress)]
  /\ codimVar' = 1
  /\ pc' = IF 1 <= dim THEN "create" ELSE "done"
  /\ UNCHANGED <<dim, topologyId, info_, baryCenters_, volume_, volumeNormals_,
                 numCorners, junk, idx, traceProvider, numVars, extVars, ret>>

\* mutant: one buffer is allocated before the loop and used for every i
CreateStorage_shared(codim) ==
  /\ heap' = Append(heap, NewCell("char[]", codim, 0))
  /\ storage_' = [storage_ EXCEPT ![codim] = Vec(size(codim), LAMBDA i : FreshAddress)]
\* the loop of Create< codim >::apply on the free store: for each i a
\* new char[ maxMappingSize ], in which trace< codim >( i, storage ) constructs
\* the mapping by placement new and returns its address
CreateStorage(codim) ==
  /\ heap' = heap \o [k \in 1..size(codim) |-> NewCell("char[]", codim, k - 1)]
  /\ storage_' = [storage_ EXCEPT ![codim] = Vec(size(codim), LAMBDA i : FreshAddress + i)]

\* mutant: the loop over the codimensions runs from dim down to 1
Create_downward ==
  /\ pc = "create"
  /\ LET refMapping == mappings_[0][0]
         codim == dim + 1 - codimVar
     IN  mappings_' = [mappings_ EXCEPT ![codim] =
                         Vec(size(codim), LAMBDA i : Trace(refMapping, codim, i))]
  /\ CreateStorage(dim + 1 - codimVar)
  /\ codimVar' = codimVar + 1
  /\ pc' = IF codimVar + 1 <= dim THEN "create" ELSE "done"
  /\ UNCHANGED <<dim, topologyId, info_, baryCenters_, volume_, volumeNormals_,
                 numCorners, junk, idx, traceProvider, numVars, extVars, ret>>
\* Create< codim >::apply( refElement, mappings )
Create ==
  /\ pc = "create"
  /\ LET refMapping == mappings_[0][0]
     IN  mappings_' = [mappings_ EXCEPT ![codimVar] =
                         Vec(size(codimVar), LAMBDA i : Trace(refMapping, codimVar, i))]
  /\ CreateStorage(codimVar)
  /\ codimVar' = codimVar + 1
  /\ pc' = IF codimVar + 1 <= dim THEN "create" ELSE "done"
  /\ UNCHANGED <<dim, topologyId, info_, baryCenters_, volume_, volumeNormals_,
                 numCorners, junk, idx, traceProvider, numVars, extVars, ret>>

\* --------------------------------------------- ~GenericReferenceElement
\* the frame of the steps of the destructor
DestructorFrame ==
  UNCHANGED <<dim, topologyId, info_, baryCenters_, volume_, volumeNormals_, mappings_,
              numCorners, junk, storage_, traceProvider, numVars, extVars, ret>>
\* p->~Mapping() for the object at address p
DestructorCall(p) == [heap EXCEPT ![p].destroyed = @ + 1]
\* the memory at address p is given back by the form of delete named
Release(p, form) == [heap EXCEPT ![p].released = @ + 1, ![p].releasedBy = form]

\* mutant: delete mappings_[ 0 ][ 0 ] stands before the loop over Destroy
Destructor_codim0First ==
  /\ pc \in {"new", "done"}
  /\ heap' = IF VSize(mappings_[0]) # 0
             THEN [heap EXCEPT ![storage_[0][0]].destroyed = @ + 1,
                               ![storage_[0][0]].released = @ + 1,
                               ![storage_[0][0]].releasedBy = "delete"]
             ELSE heap
  /\ codimVar' = 1 /\ idx' = 0
  /\ pc' = IF 1 <= dim THEN "destroy" ELSE "delete0"
  /\ DestructorFrame
\* the element is destroyed, whether initializeTopology has run or not:
\* ForLoop< Destroy, 1, dim > starts with Destroy< 1 >
Destructor ==
  /\ pc \in {"new", "done"}
  /\ codimVar' = 1 /\ idx' = 0
  /\ pc' = IF 1 <= dim THEN "destroy" ELSE "delete0"
  /\ UNCHANGED heap
  /\ DestructorFrame

\* mutant: the explicit destructor call is left out
Destroy_destructor_skipped ==
  /\ pc = "destroy" /\ idx < VSize(mappings_[codimVar])
  /\ pc' = "release"
  /\ UNCHANGED <<heap, codimVar, idx>>
  /\ DestructorFrame
\* Destroy< codim >::apply, loop body: mappings[ codim ][ i ]->~Mapping()
Destroy_destructor ==
  /\ pc = "destroy" /\ idx < VSize(mappings_[codimVar])
  /\ heap' = DestructorCall(storage_[codimVar][idx])
  /\ pc' = "release"
  /\ UNCHANGED <<codimVar, idx>>
  /\ DestructorFrame
\* Destroy< codim >::apply, loop body: storage = (char *)mappings[ codim ][ i ]
\* and delete[]( storage ), then ++i
Destroy_release ==
  /\ pc = "release"
  /\ heap' = Release(storage_[codimVar][idx], "delete[]")
  /\ idx' = idx + 1
  /\ pc' = "destroy"
  /\ UNCHANGED codimVar
  /\ DestructorFrame
\* Destroy< codim >::apply returns, ForLoop goes on with codim + 1
Destroy_next ==
  /\ pc = "destroy" /\ idx = VSize(mappings_[codimVar])
  /\ codimVar' = codimVar + 1 /\ idx' = 0
  /\ pc' = IF codimVar + 1 <= dim THEN "destroy" ELSE "delete0"
  /\ UNCHANGED heap
  /\ DestructorFrame
\* if( mappings_[ 0 ].size() ) delete mappings_[ 0 ][ 0 ]: the delete-expression
\* calls the destructor and gives the memory back
Delete_codim0 ==
  /\ pc = "delete0"
  /\ heap' = IF VSize(mappings_[0]) # 0
             THEN [heap EXCEPT ![storage_[0][0]].destroyed = @ + 1,
                               ![storage_[0][0]].released = @ + 1,
                               ![storage_[0][0]].releasedBy = "delete"]
             ELSE heap
  /\ pc' = "gone"
  /\ UNCHANGED <<codimVar, idx>>
  /\ DestructorFrame

\* ------------------------------------------------------ public accessors
\* position( i, c )
position(i, c) == baryCenters_[c][i]
\* mapping< codim >( i )
mapping(codim, i) == mappings_[codim][i]
\* checkInside< codim >( local, i )
checkInsideSub(codim, local, i) == MappingCheckInside(mapping(codim, i), local)
\* checkInside( local )
checkInside(local) == checkInsideSub(0, local, 0)
\* global< codim >( local, i )
global(codim, local, i) == MappingGlobal(mapping(codim, i), local)
\* volume()
volume == volume_

\* the local coordinates the calls are tried on
LocalPoints(n) == [0..(n - 1) -> {Rat(k, GridN) : k \in 0..GridN}]

\* how a call ends: an assert( . ) that fails ends the process unless NDEBUG
\* is defined, DUNE_THROW raises an exception, an unchecked operator[] read out
\* of range is undefined behaviour
Failed == [outcome |-> "assertion failed"]
Thrown == [outcome |-> "exception"]
Undefined == [outcome |-> "undefined behaviour"]
Value(v) == [outcome |-> "value", value |-> v]
\* k is an index into a vector or array with n entries
InRange(k, n) == k \in 0..(n - 1)

Initialized == pc = "done"
\* the caller is not inside a call
Idle == ret.op = "none"
Returns(r) == ret' = r /\ UNCHANGED <<refVars, heapVars, traceProvider, numVars, extVars>>
\* the caller takes the returned value and goes on
ReturnToCaller ==
  /\ ~Idle
  /\ ret' = [op |-> "none"]
  /\ UNCHANGED <<refVars, heapVars, traceProvider, numVars, extVars>>

Call_size ==
  /\ Initialized /\ Idle
  /\ \E c \in 0..dim : Returns([op |-> "size", c |-> c, value |-> size(c)])
Call_sizeSub ==
  /\ Initialized /\ Idle
  /\ \E c \in 0..dim : \E i \in 0..(size(c) - 1) : \E cc \in c..dim :
       Returns([op |-> "sizeSub", i |-> i, c |-> c, cc |-> cc, value |-> sizeSub(i, c, cc)])
Call_subEntity ==
  /\ Initialized /\ Idle
  /\ \E c \in 0..dim : \E i \in 0..(size(c) - 1) : \E cc \in c..dim :
       \E ii \in 0..(sizeSub(i, c, cc) - 1) :
         Returns([op |-> "subEntity", i |-> i, c |-> c, ii |-> ii, cc |-> cc,
                  value |-> subEntity(i, c, ii, cc)])
Call_type ==
  /\ Initialized /\ Idle
  /\ \E c \in 0..dim : \E i \in 0..(size(c) - 1) :
       Returns([op |-> "type", i |-> i, c |-> c, value |-> type(i, c)])
Call_position ==
  /\ Initialized /\ Idle
  /\ \E c \in 0..dim : \E i \in 0..(size(c) - 1) :
       Returns([op |-> "position", i |-> i, c |-> c, value |-> position(i, c)])
Call_volume ==
  /\ Initialized /\ Idle
  /\ Returns([op |-> "volume", value |-> volume])
Call_checkInside ==
  /\ Initialized /\ Idle
  /\ \E local \in LocalPoints(dim) :
       Returns([op |-> "checkInside", local |-> local, value |-> checkInside(local)])
Call_global ==
  /\ Initialized /\ Idle
  /\ \E codim \in 0..dim : \E i \in 0..(size(codim) - 1) :
       \E local \in LocalPoints(dim - codim) :
         Returns([op |-> "global", codim |-> codim, i |-> i, local |-> local,
                  inside |-> checkInsideSub(codim, local, i),
                  value |-> global(codim, local, i)])

\* mutant: the mapping is handed over to the caller and leaves the table
Call_mapping_handedOver ==
  /\ Initialized /\ Idle
  /\ \E codim \in 0..dim : \E i \in 0..(size(codim) - 1) :
       /\ ret' = [op |-> "mapping", codim |-> codim, i |-> i, value |-> mapping(codim, i)]
       /\ mappings_' = [mappings_ EXCEPT ![codim] = EmptyVec]
       /\ UNCHANGED <<dim, topologyId, pc, codimVar, info_, baryCenters_, volume_,
                      volumeNormals_, numCorners, junk, heapVars, traceProvider, numVars, extVars>>
\* mapping< codim >( i )
Call_mapping ==
  /\ Initialized /\ Idle
  /\ \E codim \in 0..dim : \E i \in 0..(size(codim) - 1) :
       Returns([op |-> "mapping", codim |-> codim, i |-> i, value |-> mapping(codim, i)])
\* volumeOuterNormal( face )
Call_volumeOuterNormal ==
  /\ Initialized /\ Idle
  /\ \E face \in 0..(VSize(volumeNormals_) - 1) :
       Returns([op |-> "volumeOuterNormal", face |-> face, value |-> volumeNormals_[face]])
\* GenericReferenceElements::general( type ) with the type of this element:
\* container() ( type ) returns a reference to values_[ type.id() ]
Call_general ==
  /\ Initialized /\ Idle
  /\ Returns([op |-> "general", type |-> GeometryType(topologyId, dim),
              value |-> [topologyId |-> topologyId, type |-> type(0, 0)]])

Init ==
  /\ \E d \in 0..MaxDim : \E id \in 0..(Pow2(d) - 1) : \E g \in 0..MaxJunk :
       NewElement(d, id, g)
  /\ NewProvider(0)
  /\ NewRegistry(0, FALSE, TRUE)
  /\ ret = [op |-> "none"]
  /\ traceProvider = [pc |-> "none"]

Next ==
  \/ Base_initializeTopology
  \/ ComputeCorners
  \/ ComputeBaryCenters
  \/ ComputeVolume
  \/ ComputeNormals
  \/ CreateCodim0
  \/ Create
  \/ Call_size
  \/ Call_sizeSub
  \/ Call_subEntity
  \/ Call_type
  \/ Call_position
  \/ Call_volume
  \/ Call_checkInside
  \/ Call_global
  \/ ReturnToCaller

Spec == Init /\ [][Next]_vars

\* the element from its construction to the end of its destructor
LifetimeNext ==
  \/ Base_initializeTopology
  \/ ComputeCorners
  \/ ComputeBaryCenters
  \/ ComputeVolume
  \/ ComputeNormals
  \/ CreateCodim0
  \/ Create
  \/ Destructor
  \/ Destroy_destructor
  \/ Destroy_release
  \/ Destroy_next
  \/ Delete_codim0
SpecLifetime == Init /\ [][LifetimeNext]_vars

\* the element with every public operation and the lookup in the registry
FrameNext ==
  \/ Next
  \/ Call_mapping
  \/ Call_volumeOuterNormal
  \/ Call_general
SpecFrame == Init /\ [][FrameNext]_vars

\* ----------------------------------------------------- MapNumberingProvider
\* the topology ids of dimension d that MapNumbering is specialized for
TabulatedIds(d) == {id \in 0..(Pow2(d) - 1) : MapNumberingKind(id, d) # "none"}
\* numTopologies = (1 << dimension)
numTopologies(d) == Pow2(d)
\* the dimensions MapNumberingProvider< dim > can be instantiated for: its
\* constructor runs Builder< topologyId > for every topologyId < numTopologies,
\* so each of them needs a MapNumbering specialization
ProviderDims ==
  {d \in 0..MaxTabulatedDim : TabulatedIds(d) = 0..(numTopologies(d) - 1)}

\* MapNumberingProvider(): Builder< topologyId >::apply for every topology,
\* which runs Codim< codim >::apply for codim = 0..dimension
MapNumberingProviderTables(d) ==
  [id \in 0..(numTopologies(d) - 1) |-> [codim \in 0..d |-> BuilderCodim(id, d, codim)]]

\* instance(): the function-local static is constructed by the first call
InstanceBuilt == dune2generic_ # EmptyVec
Instance_d2g ==
  IF InstanceBuilt THEN dune2generic_
  ELSE [id \in 0..(numTopologies(dimension) - 1) |->
          [codim \in 0..dimension |-> MapNumberingProviderTables(dimension)[id][codim].d2g]]
Instance_g2d ==
  IF InstanceBuilt THEN generic2dune_
  ELSE [id \in 0..(numTopologies(dimension) - 1) |->
          [codim \in 0..dimension |-> MapNumberingProviderTables(dimension)[id][codim].g2d]]

\* MapNumberingProvider::dune2generic( topologyId, i, codim )
Call_dune2generic ==
  /\ Idle
  /\ \E id \in 0..(numTopologies(dimension) - 1) : \E codim \in 0..dimension :
    \E i \in 0..(VSize(Instance_d2g[id][codim]) - 1) :
      /\ dune2generic_' = Instance_d2g
      /\ generic2dune_' = Instance_g2d
      /\ ret' = [op |-> "dune2generic", topologyId |-> id, i |-> i, codim |-> codim,
                 value |-> Instance_d2g[id][codim][i]]
      /\ UNCHANGED <<refVars, heapVars, dimension, traceProvider, extVars>>

\* MapNumberingProvider::generic2dune( topologyId, i, codim )
Call_generic2dune ==
  /\ Idle
  /\ \E id \in 0..(numTopologies(dimension) - 1) : \E codim \in 0..dimension :
    \E i \in 0..(VSize(Instance_d2g[id][codim]) - 1) :
      /\ dune2generic_' = Instance_d2g
      /\ generic2dune_' = Instance_g2d
      /\ ret' = [op |-> "generic2dune", topologyId |-> id, i |-> i, codim |-> codim,
                 value |-> Instance_g2d[id][codim][i]]
      /\ UNCHANGED <<refVars, heapVars, dimension, traceProvider, extVars>>

\* a direct call MapNumbering< Topology >::dune2generic< codim >( i ) for a
\* topology that has a specialization
Call_MapNumbering_dune2generic ==
  /\ Idle
  /\ \E d \in 0..MaxTabulatedDim : \E id \in TabulatedIds(d) : \E codim \in 0..d :
    \E i \in 0..(Size(id, d, codim) - 1) :
      Returns([op |-> "MapNumbering::dune2generic", topologyId |-> id, dim |-> d,
               codim |-> codim, i |-> i,
               value |-> MapNumbering_dune2generic(id, d, codim, i)])

\* a direct call MapNumbering< Topology >::generic2dune< codim >( i )
Call_MapNumbering_generic2dune ==
  /\ Idle
  /\ \E d \in 0..MaxTabulatedDim : \E id \in TabulatedIds(d) : \E codim \in 0..d :
    \E i \in 0..(Size(id, d, codim) - 1) :
      Returns([op |-> "MapNumbering::generic2dune", topologyId |-> id, dim |-> d,
               codim |-> codim, i |-> i,
               value |-> MapNumbering_generic2dune(id, d, codim, i)])

\* Convert< type, dim >::type::id: the topology a basic type is converted to
BasicTypes == {"simplex", "cube", "prism", "pyramid"}
RECURSIVE ConvertId(_, _)
ConvertId(basicType, d) ==
  CASE basicType = "simplex" -> IF d = 0 THEN 0 ELSE ConvertId("simplex", d - 1)
    [] basicType = "cube"    -> IF d = 0 THEN 0 ELSE ConvertId("cube", d - 1) + Pow2(d - 1)
    [] basicType = "prism"   -> ConvertId("simplex", d - 1) + Pow2(d - 1)
    [] basicType = "pyramid" -> ConvertId("cube", d - 1)
\* the dimensions Convert< type, dim >::map can be instantiated for: prism and
\* pyramid take the base of dimension dim-1, and the topology needs a
\* MapNumbering specialization
ConvertDims(basicType) ==
  {d \in 0..MaxTabulatedDim :
     /\ basicType \in {"prism", "pyramid"} => d >= 1
     /\ ConvertId(basicType, d) \in TabulatedIds(d)}
\* Convert< type, dim >::map< codim >( i )
Convert_map(basicType, d, codim, i) ==
  Value(MapNumbering_dune2generic(ConvertId(basicType, d), d, codim, i))

Call_Convert_map ==
  /\ Idle
  /\ \E basicType \in BasicTypes : \E d \in ConvertDims(basicType) : \E codim \in 0..d :
    \E i \in 0..(Size(ConvertId(basicType, d), d, codim) - 1) :
      Returns([op |-> "Convert::map", basicType |-> basicType, dim |-> d,
               topologyId |-> ConvertId(basicType, d), codim |-> codim, i |-> i,
               result |-> Convert_map(basicType, d, codim, i)])

\* --------------------------------------------------------------------------
\* shape descriptors by basic type (conversion.hh)

\* greatest dimension the descriptor conversions are instantiated for
MaxTypeDim == 4
LineTypes == {"simplex", "cube"}
\* GeometryType( basicType, dim ): the descriptor (basic type, dimension)
BasicGeometryType(basicType, d) == [basicType |-> basicType, dim |-> d]
\* a default-constructed GeometryType, the content of a fresh types_ entry
DefaultGeometryType == BasicGeometryType("none", 0)

\* types_ after the constructor DuneGeometryTypeProvider< dim, linetype >();
\* the assignments are applied in the order of the constructor.  This variant
\* leaves out the assignment of the pyramid entry.
DuneGeometryTypeProvider_noPyramid(d, linetype) ==
  LET n == IF d >= 1 THEN Pow2(d) \div 2 ELSE Pow2(d)
      fresh == [k \in 0..(n - 1) |-> DefaultGeometryType]
      none == IF d > 3 THEN [k \in 0..(n - 1) |-> BasicGeometryType("none", d)] ELSE fresh
  IN IF d >= 3
     THEN LET dd == IF d >= 2 THEN d - 2 ELSE 0
              t1 == [none EXCEPT ![0] = BasicGeometryType("simplex", d)]
              t2 == [t1 EXCEPT ![Pow2(dd)] = BasicGeometryType("prism", d)]
          IN [t2 EXCEPT ![Pow2(dd + 1) - 1] = BasicGeometryType("cube", d)]
     ELSE IF d = 2
     THEN [[none EXCEPT ![0] = BasicGeometryType("simplex", d)]
                 EXCEPT ![1] = BasicGeometryType("cube", d)]
     ELSE [none EXCEPT ![0] = BasicGeometryType(linetype, d)]
\* This variant leaves the entries of a dimension above 3 as makeNone set them,
\* except for the simplex and the cube.
DuneGeometryTypeProvider_noneAbove3(d, linetype) ==
  LET n == IF d >= 1 THEN Pow2(d) \div 2 ELSE Pow2(d)
      fresh == [k \in 0..(n - 1) |-> DefaultGeometryType]
      none == IF d > 3 THEN [k \in 0..(n - 1) |-> BasicGeometryType("none", d)] ELSE fresh
  IN IF d >= 3
     THEN LET dd == IF d >= 2 THEN d - 2 ELSE 0
              t1 == [none EXCEPT ![0] = BasicGeometryType("simplex", d)]
              t2 == IF d > 3 THEN t1 ELSE [t1 EXCEPT ![Pow2(dd)] = BasicGeometryType("prism", d)]
              t3 == IF d > 3 THEN t2 ELSE [t2 EXCEPT ![Pow2(dd) - 1] = BasicGeometryType("pyramid", d)]
          IN [t3 EXCEPT ![Pow2(dd + 1) - 1] = BasicGeometryType("cube", d)]
     ELSE IF d = 2
     THEN [[none EXCEPT ![0] = BasicGeometryType("simplex", d)]
                 EXCEPT ![1] = BasicGeometryType("cube", d)]
     ELSE [none EXCEPT ![0] = BasicGeometryType(linetype, d)]
\* types_ after the constructor DuneGeometryTypeProvider< dim, linetype >()
DuneGeometryTypeProvider(d, linetype) ==
  LET n == IF d >= 1 THEN Pow2(d) \div 2 ELSE Pow2(d)
      fresh == [k \in 0..(n - 1) |-> DefaultGeometryType]
      none == IF d > 3 THEN [k \in 0..(n - 1) |-> BasicGeometryType("none", d)] ELSE fresh
  IN IF d >= 3
     THEN LET dd == IF d >= 2 THEN d - 2 ELSE 0
              t1 == [none EXCEPT ![0] = BasicGeometryType("simplex", d)]
              t2 == [t1 EXCEPT ![Pow2(dd)] = BasicGeometryType("prism", d)]
              t3 == [t2 EXCEPT ![Pow2(dd) - 1] = BasicGeometryType("pyramid", d)]
          IN [t3 EXCEPT ![Pow2(dd + 1) - 1] = BasicGeometryType("cube", d)]
     ELSE IF d = 2
     THEN [[none EXCEPT ![0] = BasicGeometryType("simplex", d)]
                 EXCEPT ![1] = BasicGeometryType("cube", d)]
     ELSE [none EXCEPT ![0] = BasicGeometryType(linetype, d)]
\* This variant reads types_[ topologyId / 4 ].
DuneGeometryTypeProvider_type_quartered(d, linetype, id) ==
  IF id < Pow2(d)
  THEN Value(DuneGeometryTypeProvider(d, linetype)[id \div 4])
  ELSE IF ndebug THEN Undefined ELSE Failed
\* DuneGeometryTypeProvider< dim, linetype >::type( topologyId )
DuneGeometryTypeProvider_type(d, linetype, id) ==
  IF id < Pow2(d)
  THEN Value(DuneGeometryTypeProvider(d, linetype)[id \div 2])
  ELSE IF ndebug THEN Undefined ELSE Failed
Call_DuneGeometryTypeProvider_type ==
  /\ Idle
  /\ \E d \in 0..MaxTypeDim : \E linetype \in LineTypes : \E id \in 0..(Pow2(d) - 1) :
       Returns([op |-> "DuneGeometryTypeProvider::type", dim |-> d, linetype |-> linetype,
                topologyId |-> id, result |-> DuneGeometryTypeProvider_type(d, linetype, id)])

\* Convert< type, dim >::type::id, handed to
\* DuneGeometryTypeProvider< dim, linetype >::type; prism and pyramid take the
\* base of dimension dim-1
Call_Convert_type ==
  /\ Idle
  /\ \E basicType \in BasicTypes : \E linetype \in LineTypes :
     \E d \in (IF basicType \in {"prism", "pyramid"} THEN 1 ELSE 0)..MaxTypeDim :
       Returns([op |-> "Convert::type", basicType |-> basicType, dim |-> d,
                linetype |-> linetype, topologyId |-> ConvertId(basicType, d),
                result |-> DuneGeometryTypeProvider_type(d, linetype, ConvertId(basicType, d))])

\* DuneGeometryType< Prism< BaseTopology >, linetype >::basicType, base being the
\* basic type of the base topology
Prism_basicType(d, base, linetype) ==
  IF d = 1 THEN linetype
  ELSE IF d = 2 \/ base = "cube" THEN "cube" ELSE "prism"
\* This variant of the pyramid's basic type leaves out the test for dimension 2.
Pyramid_basicType_noTriangle(d, base, linetype) ==
  IF d = 1 THEN linetype
  ELSE IF base = "simplex" THEN "simplex" ELSE "pyramid"
\* DuneGeometryType< Pyramid< BaseTopology >, linetype >::basicType
Pyramid_basicType(d, base, linetype) ==
  IF d = 1 THEN linetype
  ELSE IF d = 2 \/ base = "simplex" THEN "simplex" ELSE "pyramid"
\* DuneGeometryType< Topology, linetype > for the topology of the given id and
\* dimension; accepted tells whether the static assertions on the base
\* topology hold, so that the class can be instantiated
RECURSIVE DuneGeometryType(_, _, _)
DuneGeometryType(id, d, linetype) ==
  IF d = 0
  THEN [accepted |-> TRUE, dimension |-> 0, basicType |-> linetype]
  ELSE LET DuneBaseGeometryType == DuneGeometryType(BaseId(id, d), d - 1, linetype)
       IN IF DuneBaseGeometryType.accepted
             /\ DuneBaseGeometryType.basicType \in {"simplex", "cube"}
          THEN [accepted |-> TRUE, dimension |-> DuneBaseGeometryType.dimension + 1,
                basicType |->
                  IF IsPrism(id, d)
                  THEN Prism_basicType(d, DuneBaseGeometryType.basicType, linetype)
                  ELSE Pyramid_basicType(d, DuneBaseGeometryType.basicType, linetype)]
          ELSE [accepted |-> FALSE, dimension |-> d, basicType |-> "none"]
Call_DuneGeometryType ==
  /\ Idle
  /\ \E d \in 0..MaxTypeDim : \E linetype \in LineTypes : \E id \in 0..(Pow2(d) - 1) :
       /\ DuneGeometryType(id, d, linetype).accepted
       /\ Returns([op |-> "DuneGeometryType", dim |-> d, linetype |-> linetype,
                   topologyId |-> id,
                   dimension |-> DuneGeometryType(id, d, linetype).dimension,
                   basicType |-> DuneGeometryType(id, d, linetype).basicType])

NumberingInit ==
  /\ NewElement(0, 0, 0)
  /\ \E d \in ProviderDims : NewProvider(d)
  /\ NewRegistry(0, FALSE, TRUE)
  /\ ret = [op |-> "none"]
  /\ traceProvider = [pc |-> "none"]
NumberingNext ==
  \/ Call_dune2generic
  \/ Call_generic2dune
  \/ Call_MapNumbering_dune2generic
  \/ Call_MapNumbering_generic2dune
  \/ Call_Convert_map
  \/ Call_DuneGeometryTypeProvider_type
  \/ Call_Convert_type
  \/ Call_DuneGeometryType
  \/ ReturnToCaller
SpecNumbering == NumberingInit /\ [][NumberingNext]_vars

\* ------------------------------------- accessors called with any arguments

\* size( c )
size_call(c) ==
  IF ~ndebug /\ ~(c >= 0 /\ c <= dim) THEN Failed
  ELSE IF ~InRange(c, dim + 1) THEN Undefined
  ELSE Value(size(c))

\* SubEntityInfo::size( cc ) of info_[ c ][ i ]
SubEntityInfo_size(c, i, cc) ==
  IF ~ndebug /\ ~(cc >= info_[c][i].codim_ /\ cc <= dim) THEN Failed
  ELSE IF ~InRange(cc, dim + 1) THEN Undefined
  ELSE Value(sizeSub(i, c, cc))
\* size( i, c, cc )
sizeSub_call(i, c, cc) ==
  IF ~ndebug /\ ~(c >= 0 /\ c <= dim) THEN Failed
  ELSE IF ~InRange(c, dim + 1) THEN Undefined
  ELSE IF ~InRange(i, size(c)) THEN Undefined
  ELSE SubEntityInfo_size(c, i, cc)

\* SubEntityInfo::number( ii, cc ) of info_[ c ][ i ]
SubEntityInfo_number(c, i, ii, cc) ==
  IF ~ndebug /\ ~(cc >= info_[c][i].codim_ /\ cc <= dim) THEN Failed
  ELSE IF ~InRange(cc, dim + 1) THEN Undefined
  ELSE IF ~InRange(ii, sizeSub(i, c, cc)) THEN Undefined
  ELSE Value(subEntity(i, c, ii, cc))
\* subEntity( i, c, ii, cc )
subEntity_call(i, c, ii, cc) ==
  IF ~ndebug /\ ~(c >= 0 /\ c <= dim) THEN Failed
  ELSE IF ~InRange(c, dim + 1) THEN Undefined
  ELSE IF ~InRange(i, size(c)) THEN Undefined
  ELSE SubEntityInfo_number(c, i, ii, cc)

\* type( i, c )
type_call(i, c) ==
  IF ~ndebug /\ ~(c >= 0 /\ c <= dim) THEN Failed
  ELSE IF ~InRange(c, dim + 1) THEN Undefined
  ELSE IF ~InRange(i, size(c)) THEN Undefined
  ELSE Value(type(i, c))

\* position( i, c )
position_call(i, c) ==
  IF ~ndebug /\ ~(c >= 0 /\ c <= dim) THEN Failed
  ELSE IF ~InRange(c, dim + 1) THEN Undefined
  ELSE IF ~InRange(i, VSize(baryCenters_[c])) THEN Undefined
  ELSE Value(position(i, c))

\* mapping< codim >( i ): codim is a template argument, i is not looked at
mapping_call(codim, i) ==
  IF ~InRange(i, VSize(mappings_[codim])) THEN Undefined
  ELSE Value(mapping(codim, i))

\* volumeOuterNormal( face )
volumeOuterNormal_call(face) ==
  IF ~ndebug /\ ~(face >= 0 /\ face < VSize(volumeNormals_)) THEN Failed
  ELSE IF ~InRange(face, VSize(volumeNormals_)) THEN Undefined
  ELSE Value(volumeNormals_[face])

\* mutant: the runtime codimension is not compared with codim
global_call_unchecked(codim, local, i, c) == Value(global(codim, local, i))
\* global< codim >( local, i, c ): the runtime codimension must equal codim
global_call(codim, local, i, c) ==
  IF c # codim THEN Thrown
  ELSE Value(global(codim, local, i))

\* the codimensions and indices the calls are tried with: every codimension
\* from one below to one above the range, and of the indices into n entries
\* the first and last one and their outer neighbours
AnyCodim == (-1)..(dim + 1)
AnyIndex(n) == {-1, 0, n - 1, n}
\* the number of entries a valid index into codimension c has
Entries(c) == IF InRange(c, dim + 1) THEN size(c) ELSE 1

Try_size ==
  /\ Initialized /\ Idle
  /\ \E c \in AnyCodim :
       Returns([op |-> "size", c |-> c, inRange |-> InRange(c, dim + 1),
                result |-> size_call(c)])
Try_sizeSub ==
  /\ Initialized /\ Idle
  /\ \E c \in AnyCodim : \E i \in AnyIndex(Entries(c)) : \E cc \in AnyCodim :
       Returns([op |-> "sizeSub", i |-> i, c |-> c, cc |-> cc,
                inRange |-> InRange(c, dim + 1) /\ InRange(i, size(c)) /\ cc \in c..dim,
                result |-> sizeSub_call(i, c, cc)])
Try_subEntity ==
  /\ Initialized /\ Idle
  /\ \E c \in AnyCodim : \E i \in AnyIndex(Entries(c)) : \E cc \in AnyCodim :
     \E ii \in AnyIndex(IF sizeSub_call(i, c, cc).outcome = "value"
                        THEN sizeSub_call(i, c, cc).value ELSE 1) :
       Returns([op |-> "subEntity", i |-> i, c |-> c, ii |-> ii, cc |-> cc,
                inRange |-> /\ InRange(c, dim + 1) /\ InRange(i, size(c)) /\ cc \in c..dim
                            /\ InRange(ii, sizeSub(i, c, cc)),
                result |-> subEntity_call(i, c, ii, cc)])
Try_type ==
  /\ Initialized /\ Idle
  /\ \E c \in AnyCodim : \E i \in AnyIndex(Entries(c)) :
       Returns([op |-> "type", i |-> i, c |-> c,
                inRange |-> InRange(c, dim + 1) /\ InRange(i, size(c)),
                result |-> type_call(i, c)])
Try_position ==
  /\ Initialized /\ Idle
  /\ \E c \in AnyCodim : \E i \in AnyIndex(Entries(c)) :
       Returns([op |-> "position", i |-> i, c |-> c,
                inRange |-> InRange(c, dim + 1) /\ InRange(i, size(c)),
                result |-> position_call(i, c)])
Try_mapping ==
  /\ Initialized /\ Idle
  /\ \E codim \in 0..dim : \E i \in AnyIndex(size(codim)) :
       Returns([op |-> "mapping", codim |-> codim, i |-> i,
                inRange |-> InRange(i, size(codim)),
                result |-> mapping_call(codim, i)])
Try_volumeOuterNormal ==
  /\ Initialized /\ Idle
  /\ \E face \in AnyIndex(VSize(volumeNormals_)) :
       Returns([op |-> "volumeOuterNormal", face |-> face,
                inRange |-> InRange(face, VSize(volumeNormals_)),
                result |-> volumeOuterNormal_call(face)])
Try_global ==
  /\ Initialized /\ Idle
  /\ \E codim \in 0..dim : \E i \in 0..(size(codim) - 1) : \E c \in 0..dim :
     \E local \in LocalPoints(dim - codim) :
       Returns([op |-> "global", codim |-> codim, i |-> i, c |-> c, local |-> local,
                result |-> global_call(codim, local, i, c)])

CheckedInit ==
  /\ \E d \in 0..MaxDim : \E id \in 0..(Pow2(d) - 1) : \E g \in 0..MaxJunk :
       NewElement(d, id, g)
  /\ NewProvider(0)
  /\ \E nd \in BOOLEAN : NewRegistry(0, nd, TRUE)
  /\ ret = [op |-> "none"]
  /\ traceProvider = [pc |-> "none"]
CheckedNext ==
  \/ Base_initializeTopology
  \/ ComputeCorners
  \/ ComputeBaryCenters
  \/ ComputeVolume
  \/ ComputeNormals
  \/ CreateCodim0
  \/ Create
  \/ Try_size
  \/ Try_sizeSub
  \/ Try_subEntity
  \/ Try_type
  \/ Try_position
  \/ Try_mapping
  \/ Try_volumeOuterNormal
  \/ ReturnToCaller
SpecChecked == CheckedInit /\ [][CheckedNext]_vars

\* the element and the callers of global with a runtime codimension
GlobalNext ==
  \/ Base_initializeTopology
  \/ ComputeCorners
  \/ ComputeBaryCenters
  \/ ComputeVolume
  \/ ComputeNormals
  \/ CreateCodim0
  \/ Create
  \/ Try_global
  \/ ReturnToCaller
SpecGlobal == Init /\ [][GlobalNext]_vars

\* ------------------------------------------ GenericReferenceElementContainer
\* ids of the named topologies of dimension d
SimplexTopologyId(d) == 0
CubeTopologyId(d) == Pow2(d) - 1
PyramidTopologyId(d) == Pow2(d - 1) - 1
PrismTopologyId(d) == Pow2(d - 1)

\* the entry points and the local static each of them goes through
ElementsEntries == {"general", "simplex", "cube", "begin", "end"}
ContainerEntries == {"instance", "instance.pyramid", "instance.prism"}
StaticOf(entry) == IF entry \in ElementsEntries THEN "container" ELSE "inst"
\* the GeometryType arguments a caller passes to general
ValidGeometryTypes ==
  UNION {{GeometryType(id, d) : id \in 0..(Pow2(d) - 1)} : d \in 0..MaxDim}
NoType == GeometryType(0, 0)

\* a reference to values_[ id ] of the container s, as the caller sees it
ElementRef(s, id) ==
  [outcome |-> "element", static |-> s, id |-> id,
   element |-> IF id < Pow2(dim) THEN values_[s][id] ELSE [initialized |-> "beyond values_"]]

\* operator() ( const GeometryType &type ): assert, then values_[ type.id() ]
Container_call(s, gt) ==
  IF ~ndebug /\ gt.dim # dim
  THEN [outcome |-> "assertion failed"]
  ELSE ElementRef(s, gt.id)

\* what the entry point returns once the container is there
Lookup(entry, gt) ==
  LET s == StaticOf(entry)
  IN  CASE entry = "general"  -> Container_call(s, gt)
        [] entry = "simplex"  -> ElementRef(s, SimplexTopologyId(dim))
        [] entry = "cube"     -> ElementRef(s, CubeTopologyId(dim))
        [] entry = "begin"    -> ElementRef(s, 0)
        [] entry = "end"      -> [outcome |-> "end", static |-> s]
        [] entry = "instance" -> [outcome |-> "container", static |-> s]
        [] entry = "instance.pyramid" -> ElementRef(s, PyramidTopologyId(dim))
        [] entry = "instance.prism"   -> ElementRef(s, PrismTopologyId(dim))

\* thread t calls an entry point: control reaches the declaration of the static
Registry_call(t, entry, gt) ==
  /\ thread[t].pc = "idle"
  /\ thread' = [thread EXCEPT ![t] =
                  [pc |-> "static", entry |-> entry, type |-> gt, next |-> 0]]
  /\ UNCHANGED <<refVars, heapVars, traceProvider, numVars, ndebug, threadSafeStatics, guard, values_,
                 constructions, ret>>

\* t finds the static initialised
Static_initialized(t) ==
  /\ thread[t].pc = "static"
  /\ guard[StaticOf(thread[t].entry)] = "done"
  /\ thread' = [thread EXCEPT ![t].pc = "lookup"]
  /\ UNCHANGED <<refVars, heapVars, traceProvider, numVars, ndebug, threadSafeStatics, guard, values_,
                 constructions, ret>>

\* mutant: no build marks the initialisation as running
Static_construct_unguarded(t) ==
  LET s == StaticOf(thread[t].entry)
  IN  /\ thread[t].pc = "static"
      /\ guard[s] = "uninitialized"
      /\ values_' = [values_ EXCEPT ![s] = [id \in 0..(Pow2(dim) - 1) |-> RawElement]]
      /\ thread' = [thread EXCEPT ![t].pc = "constructor"]
      /\ UNCHANGED <<refVars, heapVars, traceProvider, numVars, ndebug, threadSafeStatics, guard, constructions, ret>>
\* t finds the static uninitialised and starts GenericReferenceElementContainer():
\* the array values_ is default-constructed.  Only a build with thread-safe
\* statics marks the initialisation as running and makes other threads wait.
Static_construct(t) ==
  LET s == StaticOf(thread[t].entry)
  IN  /\ thread[t].pc = "static"
      /\ guard[s] = "uninitialized"
      /\ guard' = IF threadSafeStatics THEN [guard EXCEPT ![s] = "running"] ELSE guard
      /\ values_' = [values_ EXCEPT ![s] = [id \in 0..(Pow2(dim) - 1) |-> RawElement]]
      /\ thread' = [thread EXCEPT ![t].pc = "constructor"]
      /\ UNCHANGED <<refVars, heapVars, traceProvider, numVars, ndebug, threadSafeStatics, constructions, ret>>

\* Builder< topologyId >::apply: values[ topologyId ].initializeTopology< Topology >()
Builder_apply(t) ==
  LET s  == StaticOf(thread[t].entry)
      id == thread[t].next
  IN  /\ thread[t].pc = "constructor"
      /\ id < Pow2(dim)
      /\ values_' = [values_ EXCEPT ![s][id] =
                       [initialized |-> TRUE, type |-> GeometryType(id, dim)]]
      /\ constructions' = [constructions EXCEPT ![s][id] = @ + 1]
      /\ thread' = [thread EXCEPT ![t].next = id + 1]
      /\ UNCHANGED <<refVars, heapVars, traceProvider, numVars, ndebug, threadSafeStatics, guard, ret>>

\* the constructor returns: the static counts as initialised
Static_done(t) ==
  LET s == StaticOf(thread[t].entry)
  IN  /\ thread[t].pc = "constructor"
      /\ thread[t].next = Pow2(dim)
      /\ guard' = [guard EXCEPT ![s] = "done"]
      /\ thread' = [thread EXCEPT ![t].pc = "lookup"]
      /\ UNCHANGED <<refVars, heapVars, traceProvider, numVars, ndebug, threadSafeStatics, values_,
                     constructions, ret>>

\* the entry point's own work on the container, and its return value
Registry_lookup(t) ==
  /\ thread[t].pc = "lookup"
  /\ thread' = [thread EXCEPT ![t] =
       [pc |-> IF Lookup(thread[t].entry, thread[t].type).outcome = "assertion failed"
               THEN "aborted" ELSE "returned",
        entry |-> thread[t].entry, type |-> thread[t].type, next |-> thread[t].next,
        result |-> Lookup(thread[t].entry, thread[t].type)]]
  /\ UNCHANGED <<refVars, heapVars, traceProvider, numVars, ndebug, threadSafeStatics, guard, values_,
                 constructions, ret>>

\* the caller goes on
Registry_return(t) ==
  /\ thread[t].pc = "returned"
  /\ thread' = [thread EXCEPT ![t] = [pc |-> "idle"]]
  /\ UNCHANGED <<refVars, heapVars, traceProvider, numVars, ndebug, threadSafeStatics, guard, values_,
                 constructions, ret>>

\* the first caller, every entry point
Access_general == \E gt \in ValidGeometryTypes : Registry_call(1, "general", gt)
Access_elements == \E e \in ElementsEntries \ {"general"} : Registry_call(1, e, NoType)
Access_container == \E e \in ContainerEntries : Registry_call(1, e, NoType)

\* the steps of a call, taken by any of the callers
Thread_static_initialized == \E t \in DOMAIN thread : Static_initialized(t)
Thread_static_construct == \E t \in DOMAIN thread : Static_construct(t)
Thread_builder_apply == \E t \in DOMAIN thread : Builder_apply(t)
Thread_static_done == \E t \in DOMAIN thread : Static_done(t)
Thread_lookup == \E t \in DOMAIN thread : Registry_lookup(t)
Thread_return == \E t \in DOMAIN thread : Registry_return(t)

RegistryInit ==
  /\ \E d \in 1..MaxRegistryDim : NewElement(d, 0, 0)
  /\ NewProvider(0)
  /\ \E nd \in BOOLEAN : \E ts \in BOOLEAN : NewRegistry(1, nd, ts)
  /\ ret = [op |-> "none"]
  /\ traceProvider = [pc |-> "none"]
RegistryNext ==
  \/ Access_general
  \/ Access_elements
  \/ Access_container
  \/ Thread_static_initialized
  \/ Thread_static_construct
  \/ Thread_builder_apply
  \/ Thread_static_done
  \/ Thread_lookup
  \/ Thread_return
SpecRegistry == RegistryInit /\ [][RegistryNext]_vars

\* several threads, each calling GenericReferenceElements::cube() at any time
Thread_cube == \E t \in DOMAIN thread : Registry_call(t, "cube", NoType)

ThreadsInit ==
  /\ \E d \in 1..MaxRegistryDim : NewElement(d, 0, 0)
  /\ NewProvider(0)
  /\ \E nd \in BOOLEAN : \E ts \in BOOLEAN : NewRegistry(NumThreads, nd, ts)
  /\ ret = [op |-> "none"]
  /\ traceProvider = [pc |-> "none"]
ThreadsNext ==
  \/ Thread_cube
  \/ Thread_static_initialized
  \/ Thread_static_construct
  \/ Thread_builder_apply
  \/ Thread_static_done
  \/ Thread_lookup
  \/ Thread_return
SpecThreads == ThreadsInit /\ [][ThreadsNext]_vars

\* ------------------------------------------------------------ TraceProvider
\* two topology ids of one dimension name the same shape if they differ in
\* bit 0 only
SameShape(a, b) == a \div 2 = b \div 2
\* IsCodimHybrid< Topology, codim >::value: the subentities of this
\* codimension do not all have the same shape
IsCodimHybrid(id, d, codim) ==
  \E i \in 0..(Size(id, d, codim) - 1) :
    ~SameShape(SubTopologyId(id, d, codim, i), SubTopologyId(id, d, codim, 0))
\* hybrid = (forceHybrid || IsCodimHybrid< Topology, codim >::value)
hybrid == traceProvider.forceHybrid \/ IsCodimHybrid(topologyId, dim, traceProvider.codim)
\* numSubTopologies = Mapping::ReferenceElement::Codim< codimension >::size
numSubTopologies == Size(topologyId, dim, traceProvider.codim)

\* Factory::construct< i >( mapping, traceStorage ): the shape of the mapping
\* constructed in the buffer, VirtualMapping< SubTopology< Topology, codim, i > >
\* in HybridFactory and CachedMapping< SubTopology< Topology, codim, 0 > >
\* in NonHybridFactory
Factory_construct(i) ==
  IF hybrid
  THEN [factory |-> "HybridFactory", i |-> i,
        topologyId |-> SubTopologyId(topologyId, dim, traceProvider.codim, i)]
  ELSE [factory |-> "NonHybridFactory", i |-> i,
        topologyId |-> SubTopologyId(topologyId, dim, traceProvider.codim, 0)]

\* the provider of a topology and codimension before its first use
NewTraceProvider(codim, force) ==
  traceProvider = [pc |-> "idle", codim |-> codim, forceHybrid |-> force,
                   theInstance |-> "uninitialized", construct_ |-> EmptyVec,
                   built |-> 0, next |-> 0, i |-> 0, result |-> [outcome |-> "none"]]

\* construct( mapping, i, traceStorage ) is called: instance() is evaluated first
TraceProvider_construct ==
  /\ traceProvider.pc = "idle"
  /\ \E i \in 0..(numSubTopologies - 1) :
       traceProvider' = [traceProvider EXCEPT !.pc = "instance", !.i = i,
                                              !.result = [outcome |-> "none"]]
  /\ UNCHANGED <<refVars, heapVars, numVars, extVars, ret>>
\* instance(), first pass of static This theInstance: TraceProvider() starts
\* with construct_ unset (-1)
TraceProvider_instance_first ==
  /\ traceProvider.pc = "instance" /\ traceProvider.theInstance = "uninitialized"
  /\ traceProvider' = [traceProvider EXCEPT
       !.pc = "constructor", !.next = 0,
       !.construct_ = [k \in 0..(numSubTopologies - 1) |-> -1]]
  /\ UNCHANGED <<refVars, heapVars, numVars, extVars, ret>>
\* mutant: every entry is bound to construct< 0 >
TraceProvider_Builder_apply_first ==
  /\ traceProvider.pc = "constructor" /\ traceProvider.next < numSubTopologies
  /\ traceProvider' = [traceProvider EXCEPT
       !.construct_[traceProvider.next] = 0, !.next = @ + 1]
  /\ UNCHANGED <<refVars, heapVars, numVars, extVars, ret>>
\* Builder< i >::apply: construct[ i ] = &(Factory::template construct< i >),
\* for i = 0, ..., numSubTopologies-1
TraceProvider_Builder_apply ==
  /\ traceProvider.pc = "constructor" /\ traceProvider.next < numSubTopologies
  /\ traceProvider' = [traceProvider EXCEPT
       !.construct_[traceProvider.next] = traceProvider.next, !.next = @ + 1]
  /\ UNCHANGED <<refVars, heapVars, numVars, extVars, ret>>
\* TraceProvider() returns: theInstance is initialized
TraceProvider_instance_done ==
  /\ traceProvider.pc = "constructor" /\ traceProvider.next = numSubTopologies
  /\ traceProvider' = [traceProvider EXCEPT
       !.pc = "dispatch", !.theInstance = "done", !.built = @ + 1]
  /\ UNCHANGED <<refVars, heapVars, numVars, extVars, ret>>
\* mutant: the instance is not static, each call constructs it anew
TraceProvider_instance_anew ==
  /\ traceProvider.pc = "instance" /\ traceProvider.theInstance = "done"
  /\ traceProvider' = [traceProvider EXCEPT
       !.pc = "constructor", !.next = 0,
       !.construct_ = [k \in 0..(numSubTopologies - 1) |-> -1]]
  /\ UNCHANGED <<refVars, heapVars, numVars, extVars, ret>>
\* instance(), theInstance already initialized
TraceProvider_instance ==
  /\ traceProvider.pc = "instance" /\ traceProvider.theInstance = "done"
  /\ traceProvider' = [traceProvider EXCEPT !.pc = "dispatch"]
  /\ UNCHANGED <<refVars, heapVars, numVars, extVars, ret>>
\* return (*instance().construct_[ i ])( mapping, traceStorage )
TraceProvider_dispatch ==
  /\ traceProvider.pc = "dispatch"
  /\ traceProvider' = [traceProvider EXCEPT
       !.pc = "idle",
       !.result = IF traceProvider.construct_[traceProvider.i] = -1
                  THEN Undefined
                  ELSE Value(Factory_construct(traceProvider.construct_[traceProvider.i]))]
  /\ UNCHANGED <<refVars, heapVars, numVars, extVars, ret>>

TraceInit ==
  /\ \E d \in 0..MaxDim : \E id \in 0..(Pow2(d) - 1) : NewElement(d, id, 0)
  /\ NewProvider(0)
  /\ NewRegistry(0, FALSE, TRUE)
  /\ ret = [op |-> "none"]
  /\ \E codim \in 0..dim : \E force \in BOOLEAN : NewTraceProvider(codim, force)
TraceNext ==
  \/ TraceProvider_construct
  \/ TraceProvider_instance_first
  \/ TraceProvider_Builder_apply
  \/ TraceProvider_instance_done
  \/ TraceProvider_instance
  \/ TraceProvider_dispatch
SpecTrace == TraceInit /\ [][TraceNext]_vars

\* ================================================================== claims
\* phases of initializeTopology that lie behind the current position
InfoBuilt == pc # "new"
BaryCentersBuilt == pc \in {"volume", "normals", "mapping0", "create", "done"}
VolumeBuilt == pc \in {"normals", "mapping0", "create", "done"}
IsPermutation(v, n) == VSize(v) = n /\ {v[k] : k \in 0..(n - 1)} = 0..(n - 1)
\* the arithmetic mean of the vectors vs[0], ..., vs[n-1] of dimension d
Mean(vs, n, d) == VScale(VSumTo(VZero(d), n, vs), Rat(1, n))
RECURSIVE Factorial(_)
Factorial(n) == IF n = 0 THEN 1 ELSE n * Factorial(n - 1)
Binomial(n, k) == IF k > n THEN 0 ELSE Factorial(n) \div (Factorial(k) * Factorial(n - k))
ThisType == GeometryType(topologyId, dim)

\* the two maps of topology (id, d) at codimension c are permutations of
\* [0, size(c)) and inverse to each other
InversePermutations(d2g, g2d, n) ==
  /\ IsPermutation(d2g, n)
  /\ IsPermutation(g2d, n)
  /\ \A i \in 0..(n - 1) : g2d[d2g[i]] = i /\ d2g[g2d[i]] = i
\* C1: for every tabulated topology (all ids of dimension 0..3, the 4D cube
\* ids 14 and 15) and every codimension c, dune2generic< c > and
\* generic2dune< c > are permutations of [0, size(c)) and inverse to each
\* other: in the tables the provider has built, and for the topology of any
\* direct call.
C1_NumberingBijection ==
  /\ TabulatedIds(MaxTabulatedDim) = {14, 15}
  /\ InstanceBuilt =>
       /\ DOMAIN dune2generic_ = 0..(Pow2(dimension) - 1)
       /\ \A id \in DOMAIN dune2generic_ : \A c \in 0..dimension :
            InversePermutations(dune2generic_[id][c], generic2dune_[id][c],
                                Size(id, dimension, c))
  /\ ret.op \in {"MapNumbering::dune2generic", "MapNumbering::generic2dune"} =>
       LET n == Size(ret.topologyId, ret.dim, ret.codim)
       IN  /\ ret.value \in 0..(n - 1)
           /\ InversePermutations(
                Vec(n, LAMBDA j : MapNumbering_dune2generic(ret.topologyId, ret.dim, ret.codim, j)),
                Vec(n, LAMBDA j : MapNumbering_generic2dune(ret.topologyId, ret.dim, ret.codim, j)),
                n)
\* a call on the 4D cube returned a number that differs from its argument
C1_Witness ==
  /\ ret.op = "MapNumbering::generic2dune" /\ ret.dim = 4 /\ ret.topologyId = 15
  /\ ret.codim = 3 /\ ret.value # ret.i

\* C2: size(0) = 1 for every topology, and size(dim) is the vertex count:
\* 2^dim for the cube, dim+1 for the simplex.
C2_SizeOfCellAndVertices ==
  InfoBuilt =>
    /\ size(0) = 1
    /\ isCube(ThisType) => size(dim) = Pow2(dim)
    /\ isSimplex(ThisType) => size(dim) = dim + 1
C2_Witness ==
  /\ Initialized /\ dim = 3 /\ isCube(ThisType)
  /\ ret.op = "size" /\ ret.c = 3 /\ ret.value = 8

\* the count of base subentities of codimension c as the recursion uses it:
\* beyond the base's dimension it is 0 under a prism and 1 (the apex) under
\* a pyramid
SizeOfBase(c) ==
  IF c = dim THEN (IF IsPrism(topologyId, dim) THEN 0 ELSE 1)
  ELSE Size(BaseId(topologyId, dim), dim - 1, c)
\* size(c) obeys the recursion over the base
SizeFollowsRecursion(c) ==
  size(c) = SizeOfBase(c) + (IF IsPrism(topologyId, dim) THEN 2 ELSE 1) * SizeOfBase(c - 1)
\* C3 as stated: for 1 <= c <= dim, size(c) = size_B(c) + 2 size_B(c-1) over a
\* prism and size_B(c) + size_B(c-1) over a pyramid; the cube has C(dim,c) 2^c
\* and the simplex C(dim+1,c+1) subentities of codimension c.
C3_AsStated ==
  InfoBuilt =>
    \A c \in 1..dim :
      /\ SizeFollowsRecursion(c)
      /\ isCube(ThisType) => size(c) = Binomial(dim, c) * Pow2(c)
      /\ isSimplex(ThisType) => size(c) = Binomial(dim + 1, c + 1)
\* C3 (amended): the recursions hold as stated and give C(dim,c) 2^c for the
\* cube; for the simplex they give size(c) = C(dim+1, c), the number of faces
\* of codimension c (C(dim+1,c+1) counts the faces of dimension c).
C3_SizeRecursion ==
  InfoBuilt =>
    \A c \in 1..dim :
      /\ SizeFollowsRecursion(c)
      /\ isCube(ThisType) => size(c) = Binomial(dim, c) * Pow2(c)
      /\ isSimplex(ThisType) => size(c) = Binomial(dim + 1, c)
\* the tetrahedron reports its four faces: C(4,1), not C(4,2)
C3_Witness ==
  /\ Initialized /\ dim = 3 /\ topologyId = 0
  /\ ret.op = "size" /\ ret.c = 1 /\ ret.value = 4

\* C4: every stored adjacency value subEntity(i, c, ii, cc), c <= cc <= dim,
\* ii < size(i, c, cc), lies in [0, size(cc)).
C4_AdjacencyInRange ==
  InfoBuilt =>
    \A c \in 0..dim : \A i \in 0..(size(c) - 1) : \A cc \in c..dim :
      \A ii \in 0..(sizeSub(i, c, cc) - 1) :
        subEntity(i, c, ii, cc) \in 0..(size(cc) - 1)
C4_Witness ==
  /\ Initialized /\ dim = 3 /\ topologyId = 3
  /\ ret.op = "subEntity" /\ ret.c = 1 /\ ret.i = 4 /\ ret.cc = 3 /\ ret.value = 4

\* C5: position(0, 0) is the arithmetic mean of the vertex positions
\* position(j, dim), j < size(dim).
C5_CellBarycenter ==
  BaryCentersBuilt =>
    position(0, 0) = Mean(Vec(size(dim), LAMBDA j : position(j, dim)), size(dim), dim)
C5_Witness ==
  /\ Initialized /\ dim = 3 /\ topologyId = 3
  /\ ret.op = "position" /\ ret.c = 0
  /\ ret.value = (0 :> Rat(2, 5) @@ 1 :> Rat(2, 5) @@ 2 :> Rat(1, 5))

\* C6: for every subentity (i, c), position(i, c) is the arithmetic mean of
\* the positions of exactly its own vertices, position(subEntity(i,c,j,dim), dim)
\* for j < size(i, c, dim).
C6_SubentityBarycenter ==
  BaryCentersBuilt =>
    \A c \in 0..dim : \A i \in 0..(size(c) - 1) :
      position(i, c) =
        Mean(Vec(sizeSub(i, c, dim), LAMBDA j : position(subEntity(i, c, j, dim), dim)),
             sizeSub(i, c, dim), dim)

\* the closed form of the volume along the composition chain
ClosedVolume(id, d) ==
  IF isCube(GeometryType(id, d)) THEN RInt(1)
  ELSE IF isSimplex(GeometryType(id, d)) THEN Rat(1, Factorial(d))
  ELSE IF IsPrism(id, d) THEN ReferenceDomainVolume(BaseId(id, d), d - 1)
  ELSE RMul(ReferenceDomainVolume(BaseId(id, d), d - 1), Rat(1, d))
\* C7: volume() is 1 for the cube, 1/dim! for the simplex, volume(base) for a
\* prism and volume(base)/dim for a pyramid.
C7_VolumeClosedForm ==
  VolumeBuilt =>
    /\ volume = ClosedVolume(topologyId, dim)
    /\ isCube(ThisType) => volume = RInt(1)
    /\ isSimplex(ThisType) => volume = Rat(1, Factorial(dim))
\* the tetrahedron returns 1/6
C7_Witness ==
  /\ Initialized /\ dim = 3 /\ isSimplex(ThisType)
  /\ ret.op = "volume" /\ ret.value = Rat(1, 6)

Point2(x, y) == (0 :> RInt(x) @@ 1 :> RInt(y))
\* C8: the 2-dimensional cube has size(0) = 1, size(1) = 4, size(2) = 4,
\* volume 1, and its four vertex positions are (0,0), (1,0), (0,1), (1,1) in
\* some order.
C8_ScenarioSquare ==
  (Initialized /\ dim = 2 /\ isCube(ThisType)) =>
    /\ size(0) = 1 /\ size(1) = 4 /\ size(2) = 4
    /\ volume = RInt(1)
    /\ {position(i, 2) : i \in 0..3} = {Point2(0, 0), Point2(1, 0), Point2(0, 1), Point2(1, 1)}
C8_Witness ==
  /\ Initialized /\ dim = 2 /\ isCube(ThisType)
  /\ ret.op = "position" /\ ret.c = 2 /\ ret.i = 3 /\ ret.value = Point2(1, 1)

\* the pyramid over a square: Pyramid< Prism< Prism< Point > > > and its twin
\* over Prism< Pyramid< Point > >
IsSquarePyramid == dim = 3 /\ topologyId \in {2, 3}
FacesOfType(c, P(_)) == {i \in 0..(size(c) - 1) : P(type(i, c))}
\* C9 as stated: size(3) = 5 vertices, size(2) = 5 and these are the faces,
\* four of triangle and one of quadrilateral type, and volume() = 1/3.
C9_AsStated ==
  (Initialized /\ IsSquarePyramid) =>
    /\ size(3) = 5
    /\ size(2) = 5
    /\ Cardinality(FacesOfType(2, isTriangle)) = 4
    /\ Cardinality(FacesOfType(2, isQuadrilateral)) = 1
    /\ volume = Rat(1, 3)
\* C9 (amended): size(3) = 5 vertices; the faces are the subentities of
\* codimension 1, size(1) = 5, four of triangle and one of quadrilateral type
\* (size(2) = 8 counts the edges); volume() = 1/3.
C9_ScenarioPyramid ==
  (Initialized /\ IsSquarePyramid) =>
    /\ size(3) = 5
    /\ size(1) = 5
    /\ size(2) = 8
    /\ Cardinality(FacesOfType(1, isTriangle)) = 4
    /\ Cardinality(FacesOfType(1, isQuadrilateral)) = 1
    /\ volume = Rat(1, 3)
C9_Witness ==
  /\ Initialized /\ IsSquarePyramid
  /\ ret.op = "type" /\ ret.c = 1 /\ ret.i = 0 /\ isQuadrilateral(ret.value)

\* C10: a point inside the reference shape of subentity (i, codim) is mapped
\* by global< codim >( local, i ) to a point for which checkInside is true.
C10_EmbeddingInside ==
  (ret.op = "global" /\ ret.inside) => checkInside(ret.value)
\* the midpoint of a triangular face of the pyramid was mapped
C10_Witness ==
  /\ Initialized /\ IsSquarePyramid
  /\ ret.op = "global" /\ ret.codim = 1 /\ ret.i = 4 /\ ret.inside
  /\ ret.local = (0 :> Rat(1, 2) @@ 1 :> Rat(1, 2))

\* the accesses that have come back, or have ended the process
Answered(t) == thread[t].pc \in {"returned", "aborted"}
\* C11: general( type ) on the registry of dimension dim fails, and returns no
\* reference element, whenever type.dim() differs from dim.
C11_GeneralRejectsDimension ==
  \A t \in DOMAIN thread :
    (Answered(t) /\ thread[t].entry = "general" /\ thread[t].type.dim # dim) =>
      thread[t].result.outcome # "element"

\* C12: global< codim >( local, i, c ) throws, and yields no coordinate,
\* whenever c differs from codim; for c = codim it returns the value of
\* global< codim >( local, i ); either way the reference element is unchanged.
C12_GlobalChecksCodim ==
  [][ret'.op = "global" /\ "c" \in DOMAIN ret' =>
       /\ ret'.c # ret'.codim => ret'.result = Thrown
       /\ ret'.c = ret'.codim =>
            ret'.result = Value(global(ret'.codim, ret'.local, ret'.i))
       /\ UNCHANGED refVars]_vars
\* a call with the wrong runtime codimension has thrown
C12_Witness ==
  /\ Initialized /\ dim = 3 /\ topologyId = 3
  /\ ret.op = "global" /\ ret.codim = 1 /\ ret.c = 2 /\ ret.i = 4
  /\ ret.result.outcome = "exception"

\* the basic types whose topology in dimension d is the shape with this id
\* (bit 0 of an id carries no information)
NamedAs(id, d) ==
  {b \in BasicTypes : /\ b \in {"prism", "pyramid"} => d >= 1
                      /\ ConvertId(b, d) \div 2 = id \div 2}
\* C13: converting the basic type prism or pyramid in a dimension below 3
\* fails as not implemented, and does not yield the topology of another shape.
C13_PrismPyramidBelow3Rejected ==
  (ret.op = "Convert::map" /\ ret.basicType \in {"prism", "pyramid"} /\ ret.dim < 3) =>
    /\ ret.result.outcome = "not implemented"
    /\ NamedAs(ret.topologyId, ret.dim) \subseteq {"prism", "pyramid"}

\* C14: in a build with assertions enabled, an accessor called with a
\* subentity index or a codimension outside its range is stopped by an
\* assertion, before any table is read with that argument.
C14_OutOfRangeRejected ==
  ("inRange" \in DOMAIN ret /\ ~ndebug /\ ~ret.inRange) => ret.result = Failed

\* the number of times the element of a topologyId has been constructed
Constructed(id) == constructions["container"][id] + constructions["inst"][id]
\* C15: whatever entry points are used, nothing is built before the first
\* access, an access is answered only when the element of every topologyId
\* is built, and the element of each topologyId is constructed once only, so
\* that all accesses see the same instance.
C15_BuiltOnceOnFirstAccess ==
  /\ (thread[1].pc = "idle" /\ \A s \in Statics : guard[s] = "uninitialized") =>
       \A id \in 0..(Pow2(dim) - 1) : Constructed(id) = 0
  /\ (Answered(1) /\ "static" \in DOMAIN thread[1].result) =>
       \A id \in 0..(Pow2(dim) - 1) :
         values_[thread[1].result.static][id].initialized = TRUE
  /\ \A id \in 0..(Pow2(dim) - 1) : Constructed(id) <= 1

\* what the spec says of threads making the first request for cube(): the
\* container is constructed once, a thread gets its reference only when
\* every element is built, and all threads get the same instance
OneConstruction ==
  /\ \A id \in 0..(Pow2(dim) - 1) : constructions["container"][id] <= 1
  /\ \A t \in DOMAIN thread :
       Answered(t) =>
         /\ thread[t].result = [outcome |-> "element", static |-> "container",
                                id |-> CubeTopologyId(dim),
                                element |-> [initialized |-> TRUE,
                                             type |-> GeometryType(CubeTopologyId(dim), dim)]]
         /\ \A id \in 0..(Pow2(dim) - 1) :
              /\ constructions["container"][id] = 1
              /\ values_["container"][id].initialized = TRUE
C17_OperationsLeaveTables ==
  [][Initialized => UNCHANGED <<info_, baryCenters_, volume_, volumeNormals_, mappings_>>]_vars
C17_Witness ==
  /\ Initialized /\ dim = 3 /\ topologyId = 3
  /\ ret.op = "mapping" /\ ret.codim = 1 /\ ret.i = 4
  /\ VSize(mappings_[1]) = 5

\* the subentity table has its entries for every codimension
InfoPopulated == \A c \in 0..dim : VSize(info_[c]) = Size(topologyId, dim, c)
\* the mappings of codimension c are all there
MappingsBuilt(c) == VSize(mappings_[c]) = size(c)
\* C18: initializeTopology fills the subentity table before anything else,
\* builds the mapping of codimension 0 before any trace, and builds the traces
\* codimension by codimension from 1 up to dim; a trace is made only from
\* mappings that are complete.
C18_InitializationOrder ==
  /\ (\E c \in 0..dim : baryCenters_[c] # EmptyVec \/ mappings_[c] # EmptyVec) => InfoPopulated
  /\ volumeNormals_ # EmptyVec => InfoPopulated
  /\ \A c \in 1..dim :
       mappings_[c] # EmptyVec =>
         /\ MappingsBuilt(c)
         /\ VSize(mappings_[0]) = 1
         /\ \A b \in 1..(c - 1) : MappingsBuilt(b)
  /\ pc = "create" =>
       /\ InfoPopulated
       /\ VSize(mappings_[0]) = 1
       /\ \A b \in 1..(codimVar - 1) : MappingsBuilt(b)
       /\ \A b \in codimVar..dim : mappings_[b] = EmptyVec
C18_Witness ==
  /\ dim = 3 /\ topologyId = 3 /\ pc = "create" /\ codimVar = 2
  /\ VSize(mappings_[1]) = 5 /\ mappings_[2] = EmptyVec

\* the cells of the free store that hold the mappings of codimension c
CellsOf(c) == {p \in DOMAIN heap : heap[p].codim = c}
\* C19: when the element is destroyed, each mapping of codimension >= 1 has
\* its destructor called once and before its buffer is given back, the buffer
\* given back is the char array allocated for this mapping in Create and is
\* given back once, the mapping of codimension 0 is deleted once, and in the
\* end nothing is left allocated; an element that was never initialized gives
\* nothing back.
C19_Destruction ==
  /\ \A p \in DOMAIN heap :
       /\ heap[p].destroyed <= 1 /\ heap[p].released <= 1
       /\ heap[p].released = 1 => heap[p].destroyed = 1
       /\ heap[p].released = 1 =>
            heap[p].releasedBy = IF heap[p].kind = "char[]" THEN "delete[]" ELSE "delete"
  /\ \A c \in 0..dim : \A i \in 0..(VSize(storage_[c]) - 1) :
       heap[storage_[c][i]] \in
         {[kind |-> IF c = 0 THEN "VirtualMapping" ELSE "char[]", codim |-> c, i |-> i,
           destroyed |-> d, released |-> r, releasedBy |-> f] :
            d \in 0..1, r \in 0..1, f \in {"none", "delete", "delete[]"}}
  /\ pc = "release" => heap[storage_[codimVar][idx]].released = 0
  /\ pc = "gone" => \A p \in DOMAIN heap : heap[p].destroyed = 1 /\ heap[p].released = 1
  /\ (pc \in {"destroy", "release", "delete0", "gone"} /\ info_[0] = EmptyVec) => heap = <<>>
C19_Witness ==
  /\ pc = "gone" /\ dim = 3 /\ topologyId = 3
  /\ Len(heap) = 1 + size(1) + size(2) + size(3)
  /\ \A p \in DOMAIN heap : heap[p].released = 1

\* a mapping of codimension c has been destroyed or its memory given back
Touched(c) == \E p \in CellsOf(c) : heap[p].destroyed > 0 \/ heap[p].released > 0
\* all mappings of codimension c are destroyed and their memory given back
TornDown(c) == \A p \in CellsOf(c) : heap[p].destroyed > 0 /\ heap[p].released > 0
\* C20 as stated: the codimensions are torn down from dim down to 1, and
\* codimension 0 last
C20_AsStated ==
  /\ \A c \in 1..dim : Touched(c) => \A b \in (c + 1)..dim : TornDown(b)
  /\ Touched(0) => \A b \in 1..dim : TornDown(b)
\* C20: the mapping table is torn down in increasing order of codimension:
\* the mappings of codimension 1 first, then 2, up to dim, and the mapping of
\* codimension 0 separately, last.
C20_TeardownOrder ==
  /\ \A c \in 1..dim : Touched(c) => \A b \in 1..(c - 1) : TornDown(b)
  /\ Touched(0) => \A b \in 1..dim : TornDown(b)
C20_Witness ==
  /\ dim = 3 /\ topologyId = 3 /\ pc = "release" /\ codimVar = 2 /\ idx = 1
  /\ TornDown(1) /\ ~Touched(3) /\ ~Touched(0)

\* the places (c, i) of the mapping table
MappingSlots == UNION {{<<c, i>> : i \in 0..(VSize(storage_[c]) - 1)} : c \in 0..dim}
\* C21: after initializeTopology the mapping table holds one mapping of
\* codimension 0 and, for every codimension c in 1..dim, size(c) mappings, one
\* per subentity, none of them null and each in a buffer of its own.
C21_MappingTableShape ==
  Initialized =>
    /\ VSize(mappings_[0]) = 1 /\ VSize(storage_[0]) = 1
    /\ \A c \in 1..dim :
         /\ VSize(mappings_[c]) = Size(topologyId, dim, c)
         /\ VSize(storage_[c]) = Size(topologyId, dim, c)
         /\ size(c) = Size(topologyId, dim, c)
    /\ \A s \in MappingSlots :
         /\ storage_[s[1]][s[2]] \in DOMAIN heap
         /\ heap[storage_[s[1]][s[2]]].kind = IF s[1] = 0 THEN "VirtualMapping" ELSE "char[]"
         /\ heap[storage_[s[1]][s[2]]].codim = s[1] /\ heap[storage_[s[1]][s[2]]].i = s[2]
    /\ Cardinality({storage_[s[1]][s[2]] : s \in MappingSlots}) = Cardinality(MappingSlots)
    /\ Cardinality(MappingSlots) = Len(heap)
C21_Witness ==
  /\ Initialized /\ dim = 3 /\ topologyId = 3
  /\ VSize(mappings_[1]) = 5 /\ VSize(mappings_[2]) = 8 /\ VSize(mappings_[3]) = 5
  /\ Len(heap) = 19

\* C22: the dispatch table of a TraceProvider has one entry per subentity of
\* its codimension, is built once, at the first use, is complete before any
\* call of construct goes through it, and its entry i is the constructor for
\* subentity i.
C22_DispatchTable ==
  /\ traceProvider.built <= 1
  /\ (traceProvider.theInstance = "uninitialized" /\ traceProvider.pc = "idle") =>
       (traceProvider.built = 0 /\ traceProvider.construct_ = EmptyVec
        /\ traceProvider.result.outcome = "none")
  /\ traceProvider.result.outcome # "none" => traceProvider.built = 1
  /\ (traceProvider.pc = "dispatch" \/ traceProvider.theInstance = "done") =>
       /\ traceProvider.built = 1
       /\ DOMAIN traceProvider.construct_ = 0..(Size(topologyId, dim, traceProvider.codim) - 1)
       /\ \A k \in DOMAIN traceProvider.construct_ : traceProvider.construct_[k] = k
C22_Witness ==
  /\ dim = 3 /\ topologyId = 3 /\ traceProvider.codim = 1
  /\ traceProvider.pc = "idle" /\ traceProvider.i = 4
  /\ traceProvider.result.outcome = "value" /\ traceProvider.built = 1
  /\ DOMAIN traceProvider.construct_ = 0..4

KindsIn(d, linetype) ==
  IF d <= 1 THEN {linetype}
  ELSE IF d = 2 THEN {"simplex", "cube"}
  ELSE BasicTypes

\* C24: for a dimension up to 3, DuneGeometryTypeProvider< dim >::type( id )
\* returns a descriptor of that dimension other than none for every id below
\* 2^dim, and every basic kind of the dimension is returned for some id.
C24_TotalAndOnto ==
  (ret.op = "DuneGeometryTypeProvider::type" /\ ret.dim <= 3) =>
    /\ ret.result.outcome = "value"
    /\ ret.result.value.basicType # "none"
    /\ ret.result.value.dim = ret.dim
    /\ \A kind \in KindsIn(ret.dim, ret.linetype) :
         \E id \in 0..(Pow2(ret.dim) - 1) :
           DuneGeometryTypeProvider_type(ret.dim, ret.linetype, id)
             = Value(BasicGeometryType(kind, ret.dim))
C24_Witness ==
  /\ ret.op = "DuneGeometryTypeProvider::type"
  /\ ret.dim = 3
  /\ ret.topologyId = 3
  /\ ret.result = Value(BasicGeometryType("pyramid", 3))

\* C25 as stated: for a dimension above 3 and an id below 2^dim, type( id ) is
\* simplex or cube when the id denotes the simplex or the cube and none for
\* every other id.
C25_AsStated ==
  (ret.op = "DuneGeometryTypeProvider::type" /\ ret.dim > 3) =>
    ret.result = Value(BasicGeometryType(
      IF isSimplex(GeometryType(ret.topologyId, ret.dim)) THEN "simplex"
      ELSE IF isCube(GeometryType(ret.topologyId, ret.dim)) THEN "cube"
      ELSE "none", ret.dim))
\* C25: for a dimension above 3 and an id below 2^dim, type( id ) is simplex or
\* cube when the id denotes the simplex or the cube, prism for the two ids of
\* the prism over the simplex (2^(dim-1) and 2^(dim-1)+1), pyramid for the two
\* ids of the pyramid over the cube (2^(dim-1)-2 and 2^(dim-1)-1), and none
\* for every other id.
C25_Above3 ==
  (ret.op = "DuneGeometryTypeProvider::type" /\ ret.dim > 3) =>
    ret.result = Value(BasicGeometryType(
      IF isSimplex(GeometryType(ret.topologyId, ret.dim)) THEN "simplex"
      ELSE IF isCube(GeometryType(ret.topologyId, ret.dim)) THEN "cube"
      ELSE IF ret.topologyId \div 2 = Pow2(ret.dim - 1) \div 2 THEN "prism"
      ELSE IF ret.topologyId \div 2 = (Pow2(ret.dim - 1) - 1) \div 2 THEN "pyramid"
      ELSE "none", ret.dim))
C25_Witness ==
  /\ ret.op = "DuneGeometryTypeProvider::type"
  /\ ret.dim = 4
  /\ ret.topologyId = 8
  /\ ret.result = Value(BasicGeometryType("prism", 4))

\* C26: Convert yields id 0 for the simplex, 2^dim - 1 for the cube, 2^(dim-1)
\* for the prism and 2^(dim-1) - 1 for the pyramid, every id is below 2^dim,
\* and DuneGeometryTypeProvider< dim >::type maps the id back to the original
\* (basic kind, dim) for every kind of that dimension.
C26_ConvertRoundTrip ==
  ret.op = "Convert::type" =>
    /\ ret.topologyId = CASE ret.basicType = "simplex" -> 0
                          [] ret.basicType = "cube" -> Pow2(ret.dim) - 1
                          [] ret.basicType = "prism" -> Pow2(ret.dim - 1)
                          [] ret.basicType = "pyramid" -> Pow2(ret.dim - 1) - 1
    /\ ret.topologyId < Pow2(ret.dim)
    /\ ret.basicType \in KindsIn(ret.dim, ret.linetype) =>
         ret.result = Value(BasicGeometryType(ret.basicType, ret.dim))
C26_Witness ==
  /\ ret.op = "Convert::type"
  /\ ret.basicType = "pyramid"
  /\ ret.dim = 3
  /\ ret.topologyId = 3
  /\ ret.result = Value(BasicGeometryType("pyramid", 3))

\* C29: for every topology DuneGeometryType accepts, in every dimension and
\* for either line type, its static basicType (and dimension) is the one of
\* the descriptor DuneGeometryTypeProvider::type returns for the topology's
\* id, and the id differing only in bit 0 gets the same descriptor, from the
\* provider and from the static conversion.
C29_StaticAgreesWithProvider ==
  ret.op = "DuneGeometryType" =>
    /\ DuneGeometryTypeProvider_type(ret.dim, ret.linetype, ret.topologyId)
         = Value(BasicGeometryType(ret.basicType, ret.dimension))
    /\ ret.dim >= 1 =>
         LET twin == IF ret.topologyId % 2 = 0 THEN ret.topologyId + 1
                     ELSE ret.topologyId - 1
         IN /\ DuneGeometryTypeProvider_type(ret.dim, ret.linetype, twin)
                 = DuneGeometryTypeProvider_type(ret.dim, ret.linetype, ret.topologyId)
            /\ DuneGeometryType(twin, ret.dim, ret.linetype)
                 = [accepted |-> TRUE, dimension |-> ret.dimension,
                    basicType |-> ret.basicType]
C29_Witness ==
  /\ ret.op = "DuneGeometryType"
  /\ ret.dim = 4
  /\ ret.topologyId = 9
  /\ ret.linetype = "cube"
  /\ ret.basicType = "prism"

\* C27: once the element is initialized the number of stored normals equals
\* size( 1 ) (no normal is stored for the point, which has no codimension 1),
\* and volumeOuterNormal( face ) returns a value exactly for the faces
\* 0 <= face < size( 1 ).
C27_NormalsPerFace ==
  /\ Initialized => VSize(volumeNormals_) = (IF dim = 0 THEN 0 ELSE size(1))
  /\ (ret.op = "volumeOuterNormal" /\ "result" \in DOMAIN ret) =>
       /\ ret.result.outcome = "value" <=>
            (dim >= 1 /\ ret.face >= 0 /\ ret.face < size(1))
       /\ ret.result.outcome = "value" => ret.result.value = volumeNormals_[ret.face]
C27_Witness ==
  /\ dim = 3
  /\ size(1) = 5
  /\ ret.op = "volumeOuterNormal"
  /\ "result" \in DOMAIN ret
  /\ ret.face = 4
  /\ ret.result.outcome = "value"

\* C28: in the barycenter loop of initializeTopology the corner count used for
\* the subentity (i, codim) is its own vertex count size( i, codim, dim ), so
\* that every read subEntity( i, codim, j, dim ) has j < size( i, codim, dim ).
C28_OwnCornerCount ==
  numCorners.set =>
    \A codim \in 0..(codimVar - 1) : \A i \in 0..(size(codim) - 1) :
      numCorners.value = sizeSub(i, codim, dim)

====
